---- MODULE Spec2Model ----
(***************************************************************************)
(* A model of ulfben/cpp_prngs: the Random<E> wrapper (includes/random.hpp), *)
(* its wide multiply-shift helper (includes/detail.hpp) and the engines it *)
(* wraps (PCG32, RomuDuoJr, SmallFast64).                                  *)
(*                                                                         *)
(* Scale.  TLC's integers are 32-bit, so the machine words of the program  *)
(* are modelled at a reduced width and every operation wraps at that width *)
(* exactly where the C++ operation wraps at its own:                       *)
(*     std::uint32_t  ->  HalfBits bits                                    *)
(*     std::uint64_t  ->  WordBits = 2 * HalfBits bits                     *)
(*     __uint128_t    ->  2 * WordBits bits (never wraps in the model)      *)
(* Engine constants (multipliers, seeds) are the source's constants        *)
(* reduced modulo 2^WordBits; shift and rotate amounts that the source     *)
(* ties to the word size are tied to the scaled word size in the same way. *)
(***************************************************************************)
EXTENDS Integers, Naturals, Sequences, FiniteSets, TLC

VARIABLES
    build,  \* which implementation of the 128-bit product the build uses
    e,      \* the engine of the Random<E> instance (_e), a record
    call,   \* the operation that acted last, with its arguments
    ret,    \* what that operation returned
    drawn,  \* the raw draws (_e()) that operation consumed, in order
    other,  \* a second Random<E> instance and its last result, or NoOther
    statics \* the function-local statics of next_gaussian (hasSpare, spare)

vars == <<build, e, call, ret, drawn, other, statics>>

----------------------------------------------------------------------------
(* Word sizes *)

\* width of the model's std::uint32_t
HalfBits == 3

\* width of the model's std::uint64_t
WordBits == 2 * HalfBits

Pow2(n) == 2 ^ n

U32 == 0 .. Pow2(HalfBits) - 1
U64 == 0 .. Pow2(WordBits) - 1

\* conversion of a non-negative value to an unsigned type of the given width
Wrap(x, bits) == x % Pow2(bits)

----------------------------------------------------------------------------
(* Bitwise operators of C++ on unsigned values *)

RECURSIVE BitOr(_, _)
BitOr(a, b) ==
    IF a = 0 THEN b
    ELSE IF b = 0 THEN a
    ELSE (IF a % 2 = 1 \/ b % 2 = 1 THEN 1 ELSE 0) + 2 * BitOr(a \div 2, b \div 2)

RECURSIVE BitAnd(_, _)
BitAnd(a, b) ==
    IF a = 0 \/ b = 0 THEN 0
    ELSE (IF a % 2 = 1 /\ b % 2 = 1 THEN 1 ELSE 0) + 2 * BitAnd(a \div 2, b \div 2)

RECURSIVE BitXor(_, _)
BitXor(a, b) ==
    IF a = 0 THEN b
    ELSE IF b = 0 THEN a
    ELSE (IF a % 2 = b % 2 THEN 0 ELSE 1) + 2 * BitXor(a \div 2, b \div 2)

\* x << k on an unsigned type of the given width (bits shifted out are lost)
Shl(x, k, bits) == (x * Pow2(k)) % Pow2(bits)

\* x >> k
Shr(x, k) == x \div Pow2(k)

\* std::rotl / std::rotr on an unsigned type of the given width
Rotl(x, k, bits) ==
    LET r == k % bits
    IN  IF r = 0 THEN x ELSE BitOr(Shl(x, r, bits), Shr(x, bits - r))

Rotr(x, k, bits) ==
    LET r == k % bits
    IN  IF r = 0 THEN x ELSE BitOr(Shr(x, r), Shl(x, bits - r, bits))

----------------------------------------------------------------------------
(* detail.hpp: the wide multiply-shift primitive *)

\* mul64_to_128_parts with the carry out of p01 + p10 forgotten
mul64_to_128_parts_no_mid_carry(a, b) ==
    LET a0 == Wrap(a, HalfBits)
        a1 == Shr(a, HalfBits)
        b0 == Wrap(b, HalfBits)
        b1 == Shr(b, HalfBits)
        p00 == Wrap(a0 * b0, WordBits)
        p01 == Wrap(a0 * b1, WordBits)
        p10 == Wrap(a1 * b0, WordBits)
        p11 == Wrap(a1 * b1, WordBits)
        mid == Wrap(p01 + p10, WordBits)
        mid_lo == Shl(mid % Pow2(HalfBits), HalfBits, WordBits)
        mid_hi == Shr(mid, HalfBits)
        lo == Wrap(p00 + mid_lo, WordBits)
        lo_carry == IF lo < p00 THEN 1 ELSE 0
        hi == Wrap(p11 + mid_hi + lo_carry, WordBits)
    IN  [lo |-> lo, hi |-> hi]

\* mul64_to_128_parts(a, b): the 128-bit product from four 32-bit-limb
\* partial products, every addition wrapping at 64 bits as in the source
mul64_to_128_parts(a, b) ==
    LET a0 == Wrap(a, HalfBits)
        a1 == Shr(a, HalfBits)
        b0 == Wrap(b, HalfBits)
        b1 == Shr(b, HalfBits)
        p00 == Wrap(a0 * b0, WordBits)
        p01 == Wrap(a0 * b1, WordBits)
        p10 == Wrap(a1 * b0, WordBits)
        p11 == Wrap(a1 * b1, WordBits)
        lo32_mask == Pow2(HalfBits) - 1
        mid == Wrap(p01 + p10, WordBits)
        mid_carry == IF mid < p01 THEN Pow2(HalfBits) ELSE 0
        mid_lo == Shl(BitAnd(mid, lo32_mask), HalfBits, WordBits)
        mid_hi == Shr(mid, HalfBits)
        lo == Wrap(p00 + mid_lo, WordBits)
        lo_carry == IF lo < p00 THEN 1 ELSE 0
        hi == Wrap(p11 + mid_hi + mid_carry + lo_carry, WordBits)
    IN  [lo |-> lo, hi |-> hi]

\* shr128_to_u64 with hi shifted left by digits instead of 64 - digits
shr128_to_u64_wrong_shift(digits, hi, lo) ==
    IF digits = WordBits
    THEN hi
    ELSE BitOr(Shr(lo, digits), Shl(hi, digits, WordBits))

\* shr128_to_u64<digits>(hi, lo), digits in [1, 64]
shr128_to_u64(digits, hi, lo) ==
    IF digits = WordBits
    THEN hi
    ELSE BitOr(Shr(lo, digits), Shl(hi, WordBits - digits, WordBits))

\* _umul128(x, bound, &hi): the MSVC intrinsic, the exact product in two words
umul128(x, bound) ==
    [lo |-> (x * bound) % Pow2(WordBits), hi |-> (x * bound) \div Pow2(WordBits)]

\* The implementations of the 128-bit product a build can select:
\*   "int128"         __SIZEOF_INT128__ : native __uint128_t multiply
\*   "msvc_consteval" _MSC_VER, constant evaluation : mul64_to_128_parts
\*   "msvc_runtime"   _MSC_VER, run time : _umul128
Builds == {"int128", "msvc_consteval", "msvc_runtime"}

\* mul_shift_u64<digits>(x, bound) as the given build computes it
mul_shift_u64(b, digits, x, bound) ==
    IF b = "int128"
    THEN Wrap(Shr(x * bound, digits), WordBits)
    ELSE LET p == IF b = "msvc_consteval"
                  THEN mul64_to_128_parts(x, bound)
                  ELSE umul128(x, bound)
         IN  shr128_to_u64(digits, p.hi, p.lo)

----------------------------------------------------------------------------
(* SpecMul: the wide multiply-shift primitive as a pure function.  Init     *)
(* draws a build and the operands; the actions apply the helpers.          *)

NoEngine == [kind |-> "none"]

NoOther == [e |-> NoEngine, ret |-> [val |-> 0], drawn |-> <<>>]

\* static bool hasSpare = false; static T spare{}: zero-initialised, and the
\* spare is kept as the pair (x, s) its value x * sqrt(-2 log(s) / s) is made
\* of, with the instance that stored it, its engine before and its draws
NoStatics ==
    [hasSpare |-> FALSE,
     spare |-> [x |-> 0, s |-> 0, raws |-> <<>>, by |-> "none", from |-> NoEngine]]

InitMul ==
    /\ build \in Builds
    /\ statics = NoStatics
    /\ e = NoEngine
    /\ \E x \in U64, bound \in U64 :
          call = [op |-> "input", x |-> x, bound |-> bound]
    /\ ret = [val |-> 0]
    /\ drawn = <<>>
    /\ other = NoOther

\* detail::selftest check_mul: the product in parts, then the shift
CallMulParts ==
    /\ call.op = "input"
    /\ build = "msvc_consteval"
    /\ \E digits \in 1 .. WordBits :
          LET p == mul64_to_128_parts(call.x, call.bound)
          IN  /\ call' = [op |-> "mul64_to_128_parts", x |-> call.x,
                          bound |-> call.bound, digits |-> digits]
              /\ ret' = [lo |-> p.lo, hi |-> p.hi,
                         shr |-> shr128_to_u64(digits, p.hi, p.lo)]
    /\ UNCHANGED <<build, statics, e, drawn, other>>

\* mul_shift_u64<digits>(x, bound)
CallMulShift ==
    /\ call.op = "input"
    /\ \E digits \in 1 .. WordBits :
          /\ call' = [op |-> "mul_shift_u64", x |-> call.x,
                      bound |-> call.bound, digits |-> digits]
          /\ ret' = [val |-> mul_shift_u64(build, digits, call.x,
                                            call.bound)]
    /\ UNCHANGED <<build, statics, e, drawn, other>>

NextMul == CallMulParts \/ CallMulShift

SpecMul == InitMul /\ [][NextMul]_vars

U64Max == Pow2(WordBits) - 1

\* C2: for every width in [1, 64] and all width-bit x and bound,
\* mul_shift_u64<width>(x, bound) is exactly floor(x * bound / 2^width),
\* whichever implementation of the product the build selects.
C2_MulShiftExact ==
    (/\ call.op = "mul_shift_u64"
     /\ call.x < Pow2(call.digits)
     /\ call.bound < Pow2(call.digits))
    => ret.val = (call.x * call.bound) \div Pow2(call.digits)

\* the largest operands at full width, on the manual-decomposition path
C2_Witness ==
    /\ call.op = "mul_shift_u64"
    /\ build = "msvc_consteval"
    /\ call.digits = WordBits
    /\ call.x = U64Max
    /\ call.bound = U64Max
    /\ ret.val = U64Max - 1

\* C3: the manual 32-bit-limb product is the exact 128-bit product
\* (hi * 2^64 + lo = x * bound), its shift by digits is the low 64 bits of
\* (x * bound) >> digits, digits = 64 returns hi verbatim, and the result is
\* the native double-width path's result bit for bit.
C3_ManualEqualsNative ==
    call.op = "mul64_to_128_parts"
    => /\ ret.hi * Pow2(WordBits) + ret.lo = call.x * call.bound
       /\ ret.shr = Wrap(Shr(call.x * call.bound, call.digits), WordBits)
       /\ (call.digits = WordBits => ret.shr = ret.hi)
       /\ ret.shr = mul_shift_u64("int128", call.digits, call.x, call.bound)

\* a product whose middle partial products and low word both carry, shifted
\* across the word boundary
C3_Witness ==
    /\ call.op = "mul64_to_128_parts"
    /\ call.x = U64Max
    /\ call.bound = U64Max
    /\ call.digits = WordBits - 1
    /\ ret.lo = 1
    /\ ret.hi = U64Max - 1
    /\ ret.shr = U64Max - 3

----------------------------------------------------------------------------
(* Engines.  An engine is a record; kind names its class.                  *)

\* a shift or rotate amount the source tunes for 64-bit words, at the
\* model's word size
Scaled(k) == (k * WordBits) \div 64

RECURSIVE CeilLog2(_)
CeilLog2(n) == IF n <= 1 THEN 0 ELSE 1 + CeilLog2((n + 1) \div 2)

(* PCG32: 64-bit LCG state, 32-bit output (XSH-RR) *)

\* PCG32::MULT (6364136223846793005 = 0x5851F42D4C957F2D), its low 16 bits
MULT == 32557

\* PCG32::DEFAULT_SEED (0x853c49e6748fea9b), its low 16 bits
DEFAULT_SEED == 60059

\* PCG32::DEFAULT_STREAM (0xda3e39cb94b95bdb), its low 16 bits
DEFAULT_STREAM == 23515

\* the rotation count of the output function is the top log2(32) = 5 bits of
\* the state: oldstate >> 59, with 59 = 64 - 5, 27 = 32 - 5, 18 = (32 + 5) / 2
PcgRotBits == CeilLog2(HalfBits)

\* PCG32::next
PCG32_next(g) ==
    LET oldstate == g.state
        xorshifted ==
            Wrap(Shr(BitXor(Shr(oldstate, (HalfBits + PcgRotBits) \div 2), oldstate),
                     HalfBits - PcgRotBits), HalfBits)
        rot == Wrap(Shr(oldstate, WordBits - PcgRotBits), HalfBits)
    IN  [e |-> [g EXCEPT !.state =
                   Wrap(oldstate * Wrap(MULT, WordBits) + g.inc, WordBits)],
         val |-> Rotr(xorshifted, rot, HalfBits)]

\* PCG32::from_state
PCG32_from_state(state_val, inc_val) ==
    [kind |-> "PCG32", state |-> state_val, inc |-> inc_val]

\* PCG32::seed(seed_val, sequence)
PCG32_seed(seed_val, sequence) ==
    LET g0 == [kind |-> "PCG32", state |-> 0,
               inc |-> BitOr(Shl(sequence, 1, WordBits), 1)]
        g1 == PCG32_next(g0).e
        g2 == [g1 EXCEPT !.state = Wrap(g1.state + seed_val, WordBits)]
    IN  PCG32_next(g2).e

\* the loop of PCG32::discard
RECURSIVE PCG32_discard_loop(_, _, _, _, _)
PCG32_discard_loop(cur_mult, cur_plus, acc_mult, acc_plus, delta) ==
    IF delta > 0
    THEN LET odd == delta % 2 = 1
             am == IF odd THEN Wrap(acc_mult * cur_mult, WordBits) ELSE acc_mult
             ap == IF odd THEN Wrap(acc_plus * cur_mult + cur_plus, WordBits)
                   ELSE acc_plus
         IN  PCG32_discard_loop(Wrap(cur_mult * cur_mult, WordBits),
                                Wrap(Wrap(cur_mult + 1, WordBits) * cur_plus, WordBits),
                                am, ap, delta \div 2)
    ELSE [acc_mult |-> acc_mult, acc_plus |-> acc_plus]

\* PCG32::discard with the accumulated increment not multiplied through
PCG32_discard_plus_not_scaled(g, delta) ==
    LET RECURSIVE Loop(_, _, _, _, _)
        Loop(cur_mult, cur_plus, acc_mult, acc_plus, d) ==
            IF d > 0
            THEN Loop(Wrap(cur_mult * cur_mult, WordBits),
                      Wrap(Wrap(cur_mult + 1, WordBits) * cur_plus, WordBits),
                      IF d % 2 = 1 THEN Wrap(acc_mult * cur_mult, WordBits) ELSE acc_mult,
                      IF d % 2 = 1 THEN Wrap(acc_plus + cur_plus, WordBits) ELSE acc_plus,
                      d \div 2)
            ELSE [acc_mult |-> acc_mult, acc_plus |-> acc_plus]
        a == Loop(Wrap(MULT, WordBits), g.inc, 1, 0, delta)
    IN  [g EXCEPT !.state = Wrap(a.acc_mult * g.state + a.acc_plus, WordBits)]

\* PCG32::discard
PCG32_discard(g, delta) ==
    LET a == PCG32_discard_loop(Wrap(MULT, WordBits), g.inc, 1, 0, delta)
    IN  [g EXCEPT !.state = Wrap(a.acc_mult * g.state + a.acc_plus, WordBits)]

(* RomuDuoJr: two 64-bit words, 64-bit output *)

\* the initial x of RomuDuoJr(seed) (0x9E6C63D0676A9A99), its low 16 bits
ROMU_X0 == 39577

\* the multiplier of RomuDuoJr::next (0xD3833E804F4C574B), its low 16 bits
ROMU_MULT == 22347

\* the default seed of RomuDuoJr (0xFEEDFACEFEEDFACE), its low 16 bits
ROMU_DEFAULT_SEED == 64206

\* RomuDuoJr::mix
Romu_mix(y) == BitXor(BitXor(y, Shr(y, Scaled(23))), Shr(y, Scaled(51)))

\* RomuDuoJr::from_state
Romu_from_state(xstate, ystate) == [kind |-> "RomuDuoJr", x |-> xstate, y |-> ystate]

\* RomuDuoJr::RomuDuoJr(seed)
Romu_seed(seed) ==
    LET x0 == Wrap(ROMU_X0, WordBits)
        y0 == Wrap((U64Max - seed) + Pow2(WordBits) - seed, WordBits)   \* ~seed - seed
        y1 == Wrap(y0 * x0, WordBits)
        y2 == Romu_mix(y1)
        y3 == Wrap(y2 * x0, WordBits)
        x1 == Wrap(x0 * Rotl(y3, Scaled(27), WordBits), WordBits)
        y4 == Romu_mix(y3)
    IN  Romu_from_state(x1, y4)

\* RomuDuoJr::next
Romu_next(g) ==
    LET old_x == g.x
    IN  [e |-> [g EXCEPT !.x = Wrap(g.y * Wrap(ROMU_MULT, WordBits), WordBits),
                         !.y = Rotl(Wrap(g.y + Pow2(WordBits) - old_x, WordBits),
                                    Scaled(27), WordBits)],
         val |-> old_x]

(* SmallFast64: four 64-bit words, 64-bit output *)

\* the initial a of SmallFast64(seed) (0xf1ea5eed), its low 16 bits
SF64_A0 == 24301

\* the default seed of SmallFast64 (0xBADC0FFEE0DDF00D), its low 16 bits
SF64_DEFAULT_SEED == 61453

\* the warm-up length of SmallFast64(seed): discard(20)
SF64_WARMUP == 20

\* SmallFast64::next
SF64_next(g) ==
    LET t == Wrap(g.a + Pow2(WordBits) - Rotl(g.b, Scaled(7), WordBits), WordBits)
        a == BitXor(g.b, Rotl(g.c, Scaled(13), WordBits))
        b == Wrap(g.c + Rotl(g.d, Scaled(37), WordBits), WordBits)
        c == Wrap(g.d + t, WordBits)
        d == Wrap(t + a, WordBits)
    IN  [e |-> [kind |-> "SmallFast64", a |-> a, b |-> b, c |-> c, d |-> d],
         val |-> d]

EngineKinds == {"PCG32", "RomuDuoJr", "SmallFast64"}

\* std::numeric_limits<E::result_type>::digits
value_bits(kind) == IF kind = "PCG32" THEN HalfBits ELSE WordBits

\* E::max()
EngineMax(kind) == Pow2(value_bits(kind)) - 1

\* _e(): the next raw draw and the advanced engine
EngineNext(g) ==
    IF g.kind = "PCG32" THEN PCG32_next(g)
    ELSE IF g.kind = "RomuDuoJr" THEN Romu_next(g)
    ELSE SF64_next(g)

\* n successive next() calls: while(n--){ next(); }
RECURSIVE NextTimes(_, _)
NextTimes(g, n) == IF n = 0 THEN g ELSE NextTimes(EngineNext(g).e, n - 1)

\* E::discard(n)
EngineDiscard(g, n) ==
    IF g.kind = "PCG32" THEN PCG32_discard(g, n) ELSE NextTimes(g, n)

\* E(seed)
EngineSeeded(kind, seed) ==
    IF kind = "PCG32" THEN PCG32_seed(seed, Wrap(DEFAULT_STREAM, WordBits))
    ELSE IF kind = "RomuDuoJr" THEN Romu_seed(seed)
    ELSE NextTimes([kind |-> "SmallFast64", a |-> Wrap(SF64_A0, WordBits),
                    b |-> seed, c |-> seed, d |-> seed], SF64_WARMUP)

\* E{}
EngineDefault(kind) ==
    EngineSeeded(kind,
        Wrap(IF kind = "PCG32" THEN DEFAULT_SEED
             ELSE IF kind = "RomuDuoJr" THEN ROMU_DEFAULT_SEED
             ELSE SF64_DEFAULT_SEED, WordBits))

\* PCG32::seed(seed_val, sequence) without its 'state = 0U'
PCG32_reseed_state_kept(g, seed_val, sequence) ==
    LET g0 == [g EXCEPT !.inc = BitOr(Shl(sequence, 1, WordBits), 1)]
        g1 == PCG32_next(g0).e
        g2 == [g1 EXCEPT !.state = Wrap(g1.state + seed_val, WordBits)]
    IN  PCG32_next(g2).e

\* PCG32::seed(seed_val, sequence) called on the engine g
PCG32_reseed(g, seed_val, sequence) ==
    LET g0 == [g EXCEPT !.state = 0,
                        !.inc = BitOr(Shl(sequence, 1, WordBits), 1)]
        g1 == PCG32_next(g0).e
        g2 == [g1 EXCEPT !.state = Wrap(g1.state + seed_val, WordBits)]
    IN  PCG32_next(g2).e

\* the end of PCG32::split: PCG32{a, (b << 1u) | 1u}, the shift done in the
\* 32 bits of result_type; ret is the child
PCG32_split_child(a, b) ==
    [e |-> b.e,
     ret |-> PCG32_seed(a.val, BitOr(Shl(b.val, 1, HalfBits), 1)),
     drawn |-> <<a.val, b.val>>]

\* PCG32::split from its second next() on
PCG32_split_second(a) == PCG32_split_child(a, PCG32_next(a.e))

\* PCG32::split
PCG32_split(g) == PCG32_split_second(PCG32_next(g))

\* E::seed(v): PCG32 reseeds in place on its default stream, the others
\* assign a newly constructed engine to *this
EngineReseed(g, seed) ==
    IF g.kind = "PCG32" THEN PCG32_reseed(g, seed, Wrap(DEFAULT_STREAM, WordBits))
    ELSE EngineSeeded(g.kind, seed)

\* a copy that is a default-constructed engine instead
EngineCopy_default_constructed(g) == EngineDefault(g.kind)

\* the implicit copy constructor of an engine: member by member
EngineCopy(g) ==
    IF g.kind = "PCG32" THEN [kind |-> "PCG32", state |-> g.state, inc |-> g.inc]
    ELSE IF g.kind = "RomuDuoJr" THEN [kind |-> "RomuDuoJr", x |-> g.x, y |-> g.y]
    ELSE [kind |-> "SmallFast64", a |-> g.a, b |-> g.b, c |-> g.c, d |-> g.d]

\* the defaulted operator== of an engine: member by member
EngineEq(g, h) ==
    IF g.kind = "PCG32" THEN g.state = h.state /\ g.inc = h.inc
    ELSE IF g.kind = "RomuDuoJr" THEN g.x = h.x /\ g.y = h.y
    ELSE g.a = h.a /\ g.b = h.b /\ g.c = h.c /\ g.d = h.d

----------------------------------------------------------------------------
(* Integer and floating-point types of the caller *)

\* width of the model's short / unsigned short (below the rank of int)
ShortBits == HalfBits - 1

\* promoted: the type ranks below int, so its arithmetic is done in int,
\* where it cannot overflow, and converted back
IntTypes ==
    { [name |-> "short", bits |-> ShortBits, signed |-> TRUE, promoted |-> TRUE],
      [name |-> "unsigned short", bits |-> ShortBits, signed |-> FALSE, promoted |-> TRUE],
      [name |-> "int", bits |-> HalfBits, signed |-> TRUE, promoted |-> FALSE],
      [name |-> "unsigned", bits |-> HalfBits, signed |-> FALSE, promoted |-> FALSE],
      [name |-> "long long", bits |-> WordBits, signed |-> TRUE, promoted |-> FALSE],
      [name |-> "unsigned long long", bits |-> WordBits, signed |-> FALSE,
       promoted |-> FALSE] }

UnsignedTypes == {T \in IntTypes : ~T.signed}

\* std::numeric_limits<I>::min() and max()
TypeMin(I) == IF I.signed THEN 0 - Pow2(I.bits - 1) ELSE 0
TypeMax(I) == IF I.signed THEN Pow2(I.bits - 1) - 1 ELSE Pow2(I.bits) - 1

\* static_cast<I>(v): conversion to an integer type is modular
ToType(I, v) ==
    LET w == ((v % Pow2(I.bits)) + Pow2(I.bits)) % Pow2(I.bits)
    IN  IF I.signed /\ w >= Pow2(I.bits - 1) THEN w - Pow2(I.bits) ELSE w

\* std::make_unsigned_t<I>
MakeUnsigned(I) == [I EXCEPT !.signed = FALSE]

\* IEEE 754 binary formats: 1 sign bit, exp exponent bits, mant mantissa bits.
\* float feeds from 32-bit engines (23 <= 32), double only from 64-bit ones
\* (32 < 52 <= 64).
FloatTypes ==
    { [name |-> "float", exp |-> 2, mant |-> HalfBits - 1],
      [name |-> "double", exp |-> 2, mant |-> WordBits - 1] }

\* the exponent field of 1.0
Bias(F) == Pow2(F.exp - 1) - 1

\* UInt of normalized(): the unsigned type as wide as F
UIntOf(F) == [name |-> "UInt", bits |-> 1 + F.exp + F.mant, signed |-> FALSE,
              promoted |-> FALSE]

\* the bit pattern read as F without subtracting F(1.0)
BitCastNotRebased(F, as_int) ==
    [finite |-> TRUE, num |-> Pow2(F.mant) + (as_int % Pow2(F.mant)),
     den |-> Pow2(F.mant)]

\* std::bit_cast<F>(as_int) - F(1.0) for a non-negative pattern as_int, as the
\* exact fraction num / den
BitCastMinusOne(F, as_int) ==
    LET field == Shr(as_int, F.mant) % Pow2(F.exp)
        m == as_int % Pow2(F.mant)
        den == Pow2(F.mant + Bias(F) - 1)
    IN  IF field = Pow2(F.exp) - 1
        THEN [finite |-> FALSE, num |-> 0, den |-> den]     \* infinity or NaN
        ELSE IF field = 0
        THEN [finite |-> TRUE, num |-> m - den, den |-> den] \* subnormal
        ELSE [finite |-> TRUE,
              num |-> (Pow2(F.mant) + m) * Pow2(field - 1) - den, den |-> den]

----------------------------------------------------------------------------
(* random.hpp: Random<E>.  An operation yields the advanced engine, the     *)
(* value returned and the raw draws it consumed.                           *)

\* Random::mask_low<T>(n)
mask_low(T, n) ==
    IF n = 0 THEN 0
    ELSE IF n >= T.bits THEN TypeMax(T)
    ELSE Wrap(Shl(1, n, T.bits) + Pow2(T.bits) - 1, T.bits)

\* take_high_bits returning the draw itself: neither shifted nor masked
take_high_bits_unshifted(T, vb, x, n) == Wrap(x, T.bits)

\* take_high_bits taking the low n bits of the draw
take_high_bits_low(T, vb, x, n) == BitAnd(Wrap(x, T.bits), mask_low(T, n))

\* Random::take_high_bits<T>(x, n), 1 <= n <= value_bits
take_high_bits(T, vb, x, n) ==
    LET shift == vb - n
    IN  BitAnd(Wrap(Shr(x, shift), T.bits), mask_low(T, n))

\* the gathering loop pushing earlier chunks up: acc = (acc << take) | chunk
RECURSIVE gather_loop_high_to_low(_, _, _, _, _, _)
gather_loop_high_to_low(T, g, n, acc, filled, raws) ==
    IF filled < n
    THEN LET vb == value_bits(g.kind)
             take == IF vb < n - filled THEN vb ELSE n - filled
             r == EngineNext(g)
             chunk == take_high_bits(T, vb, r.val, take)
         IN  gather_loop_high_to_low(T, r.e, n,
                                     BitOr(Shl(acc, take, T.bits), chunk),
                                     filled + take, Append(raws, r.val))
    ELSE [e |-> g, ret |-> acc, drawn |-> raws]

\* the gathering loop taking a whole draw every time: no min with n - filled
RECURSIVE gather_loop_takes_all(_, _, _, _, _, _)
gather_loop_takes_all(T, g, n, acc, filled, raws) ==
    IF filled < n
    THEN LET vb == value_bits(g.kind)
             r == EngineNext(g)
             chunk == take_high_bits(T, vb, r.val, vb)
         IN  gather_loop_takes_all(T, r.e, n, BitOr(acc, Shl(chunk, filled, T.bits)),
                                   filled + vb, Append(raws, r.val))
    ELSE [e |-> g, ret |-> acc, drawn |-> raws]

\* the loop of Random::gather_bits_runtime<T>(n)
RECURSIVE gather_loop(_, _, _, _, _, _)
gather_loop(T, g, n, acc, filled, raws) ==
    IF filled < n
    THEN LET vb == value_bits(g.kind)
             take == IF vb < n - filled THEN vb ELSE n - filled
             r == EngineNext(g)
             chunk == take_high_bits(T, vb, r.val, take)
         IN  gather_loop(T, r.e, n, BitOr(acc, Shl(chunk, filled, T.bits)),
                         filled + take, Append(raws, r.val))
    ELSE [e |-> g, ret |-> acc, drawn |-> raws]

\* Random::gather_bits_runtime<T>(n)
gather_bits_runtime(T, g, n) ==
    LET r == gather_loop(T, g, n, 0, 0, <<>>)
    IN  [r EXCEPT !.ret = BitAnd(r.ret, mask_low(T, n))]

\* Random::next()
RandomNext(g) ==
    LET r == EngineNext(g)
    IN  [e |-> r.e, ret |-> r.val, drawn |-> <<r.val>>]

\* the range reduction of Random::next(bound) shifting one bit too few
reduce_shift_short(b, vb, raw_value, bound) ==
    IF vb <= HalfBits
    THEN Wrap(Shr(Wrap(raw_value * bound, WordBits), vb - 1), vb)
    ELSE mul_shift_u64(b, vb - 1, raw_value, bound)

\* the range reduction of Random::next(bound) on a raw draw
reduce(b, vb, raw_value, bound) ==
    IF vb <= HalfBits
    THEN LET product == Wrap(raw_value * bound, WordBits)
         IN  Wrap(Shr(product, vb), vb)
    ELSE IF vb <= WordBits
    THEN mul_shift_u64(b, vb, raw_value, bound)
    ELSE IF bound > 0 THEN raw_value % bound ELSE bound

\* Random::next(bound)
RandomNextBound(b, g, bound) ==
    LET r == EngineNext(g)
    IN  [e |-> r.e, ret |-> reduce(b, value_bits(g.kind), r.val, bound),
         drawn |-> <<r.val>>]

\* result_type of an engine of the given width
ResultType(vb) == CHOOSE T \in UnsignedTypes : T.bits = vb

\* Random::next<Bound, T>() for Bound > 1, on the raw draw x it takes: a
\* power of two extracts bits<countr_zero(Bound), T>(), any other Bound
\* goes to next(Bound)
next_const_of_draw(b, T, vb, x, Bound) ==
    IF BitAnd(Bound, Bound - 1) = 0
    THEN take_high_bits(T, vb, x, CeilLog2(Bound))
    ELSE ToType(T, reduce(b, vb, x, Bound))

\* the compile-time overload without its Bound == 1 branch: one draw for
\* every Bound
RandomNextConst_draws_for_one(b, T, g, Bound) ==
    LET r == EngineNext(g)
    IN  [e |-> r.e,
         ret |-> next_const_of_draw(b, T, value_bits(g.kind), r.val, Bound),
         drawn |-> <<r.val>>]

\* Random::next<Bound, T>(), Bound > 0 and Bound - 1 <= max(T)
RandomNextConst(b, T, g, Bound) ==
    IF Bound = 1 THEN [e |-> g, ret |-> 0, drawn |-> <<>>]
    ELSE LET r == EngineNext(g)
         IN  [e |-> r.e,
              ret |-> next_const_of_draw(b, T, value_bits(g.kind), r.val, Bound),
              drawn |-> <<r.val>>]

\* Random::bits<T>(n) and bits<N, T>()
RandomBits(T, g, n) ==
    IF n <= value_bits(g.kind)
    THEN LET r == EngineNext(g)
         IN  [e |-> r.e, ret |-> take_high_bits(T, value_bits(g.kind), r.val, n),
              drawn |-> <<r.val>>]
    ELSE gather_bits_runtime(T, g, n)

\* Random::bits_as<T>()
RandomBitsAs(T, g) == RandomBits(T, g, T.bits)

\* lo + static_cast<I>(r), the last line of Random::between.  In a signed
\* type of int's rank or above an overflowing sum is undefined; what happens
\* is the build's choice: traps says whether it makes the overflow trap
\* (-ftrapv, a sanitizer, a constant evaluation, which rejects it) so that
\* nothing is returned, or lets the sum wrap to val.
OffsetOutcome(traps, I, lo, r) ==
    LET sum == lo + ToType(I, r)
        overflows == /\ I.signed
                     /\ ~I.promoted
                     /\ (sum < TypeMin(I) \/ sum > TypeMax(I))
    IN  [returned |-> ~(overflows /\ traps), val |-> ToType(I, sum)]

\* Random::between(I lo, I hi) for lo < hi
RandomBetween(b, traps, I, g, lo, hi) ==
    LET U == MakeUnsigned(I)
        bound == Wrap(ToType(U, hi) + Pow2(U.bits) - ToType(U, lo), U.bits)
        safe_bound == Wrap(bound, value_bits(g.kind))
        r == RandomNextBound(b, g, safe_bound)
    IN  [e |-> r.e, ret |-> OffsetOutcome(traps, I, lo, r.ret),
         drawn |-> r.drawn]

\* a failed assert: the call does not return, nothing is drawn
Asserted(g) ==
    [e |-> g, ret |-> [asserted |-> TRUE, returned |-> FALSE, val |-> 0],
     drawn |-> <<>>]

\* a call that passed its asserts, or was built without them
Unasserted(r) ==
    [e |-> r.e,
     ret |-> [asserted |-> FALSE, returned |-> r.ret.returned, val |-> r.ret.val],
     drawn |-> r.drawn]

\* between() without its guard against an inverted or empty range
inverted_or_empty_unguarded(lo, hi) == FALSE

\* !(lo < hi), the guard that opens Random::between
inverted_or_empty(lo, hi) == ~(lo < hi)

\* between() without its assert on the width of the range
fits_engine_unasserted(bound, max) == TRUE

\* bound <= E::max(), the assert of Random::between
fits_engine(bound, max) == bound <= max

\* Random::between(I lo, I hi) for every lo and hi.  NDEBUG says whether the
\* build compiles the asserts out.
RandomBetweenAny(b, NDEBUG, traps, I, g, lo, hi) ==
    LET U == MakeUnsigned(I)
        bound == Wrap(ToType(U, hi) + Pow2(U.bits) - ToType(U, lo), U.bits)
    IN  IF inverted_or_empty(lo, hi)
        THEN IF NDEBUG
             THEN [e |-> g,
                   ret |-> [asserted |-> FALSE, returned |-> TRUE, val |-> lo],
                   drawn |-> <<>>]
             ELSE Asserted(g)
        ELSE IF ~NDEBUG /\ ~fits_engine(bound, EngineMax(g.kind))
             THEN Asserted(g)
             ELSE Unasserted(RandomBetween(b, traps, I, g, lo, hi))

\* an integer result as the value a call returned
ReturnedValue(r) ==
    [e |-> r.e, ret |-> [asserted |-> FALSE, returned |-> TRUE, val |-> r.ret],
     drawn |-> r.drawn]

\* next(bound) without its assert on the bound
bound_positive_unasserted(bound) == TRUE

\* bound > 0, the assert of Random::next(bound)
bound_positive(bound) == bound > 0

\* Random::next(result_type bound) for every bound
RandomNextBoundAny(b, NDEBUG, g, bound) ==
    IF ~NDEBUG /\ ~bound_positive(bound) THEN Asserted(g)
    ELSE ReturnedValue(RandomNextBound(b, g, bound))

\* index() without its draw: always the first element
RandomIndex_first(b, NDEBUG, g, size) ==
    IF size = 0 /\ ~NDEBUG THEN Asserted(g)
    ELSE [e |-> g, ret |-> [asserted |-> FALSE, returned |-> TRUE, val |-> 0],
          drawn |-> <<>>]

\* Random::index(collection), idx_t = std::size_t
RandomIndex(b, NDEBUG, g, size) ==
    LET idx_t == [name |-> "unsigned long long", bits |-> WordBits,
                  signed |-> FALSE, promoted |-> FALSE]
    IN  IF size = 0 /\ ~NDEBUG THEN Asserted(g)
        ELSE RandomBetweenAny(b, NDEBUG, FALSE, idx_t, g, 0, size)

\* Random::iterator(collection): begin() advanced by index(collection), as
\* the distance from begin(); the distance of end() is size
RandomIterator(b, NDEBUG, g, size) ==
    IF size = 0 /\ ~NDEBUG THEN Asserted(g)
    ELSE RandomIndex(b, NDEBUG, g, size)

\* *it for the iterator element() gets from iterator().  Dereferencing
\* end() is undefined: it traps or yields the value garbage.
Dereference(traps, it, collection, garbage) ==
    IF it.ret.asserted THEN it
    ELSE IF it.ret.val < Len(collection)
    THEN [it EXCEPT !.ret.val = collection[it.ret.val + 1]]
    ELSE IF traps
    THEN [it EXCEPT !.ret.returned = FALSE, !.ret.val = 0]
    ELSE [it EXCEPT !.ret.val = garbage]

\* Random::element(collection)
Random_element(b, NDEBUG, traps, g, collection, garbage) ==
    Dereference(traps, RandomIterator(b, NDEBUG, g, Len(collection)),
                collection, garbage)

\* Random::normalized<F>()
RandomNormalized(F, g) ==
    LET base == Shl(Bias(F), F.mant, UIntOf(F).bits)
        m == RandomBits(UIntOf(F), g, F.mant)
        as_int == BitOr(base, m.ret)
    IN  [e |-> m.e, ret |-> BitCastMinusOne(F, as_int), drawn |-> m.drawn]

\* floor(log2(n)) for n >= 1
RECURSIVE FloorLog2(_)
FloorLog2(n) == IF n < 2 THEN 0 ELSE 1 + FloorLog2(n \div 2)

\* A result of F's arithmetic: the exact value n / 2^F.mant rounded to the
\* F.mant + 1 significant bits F holds, to nearest and to even on a tie.
\* (Every value of gaussian() is far inside the exponent range of float and
\* double, so only the precision is modelled.)
FloatRound(F, n) ==
    LET a == IF n < 0 THEN 0 - n ELSE n
        shift == FloorLog2(a) - F.mant
    IN  IF a = 0 \/ shift <= 0 THEN n
        ELSE LET q == a \div Pow2(shift)
                 rest == a % Pow2(shift)
                 half == Pow2(shift - 1)
                 up == IF rest > half \/ (rest = half /\ q % 2 = 1) THEN 1 ELSE 0
                 r == (q + up) * Pow2(shift)
             IN  IF n < 0 THEN 0 - r ELSE r

\* a value of normalized<F>() in units of 2^-F.mant
FloatUnits(F, v) == (v.num * Pow2(F.mant)) \div v.den

\* the number of terms gaussian() sums, and the mean of their sum
GAUSSIAN_TERMS == 12
GAUSSIAN_SHIFT == 6

\* sum += normalized<F>() after one normalized<F>() call m
gaussian_add(F, sum, m, raws) ==
    [e |-> m.e, sum |-> FloatRound(F, sum + FloatUnits(F, m.ret)),
     drawn |-> raws \o m.drawn]

\* the loop of gaussian() stopping one term early
RECURSIVE gaussian_loop_one_short(_, _, _, _)
gaussian_loop_one_short(F, acc, i, terms) ==
    IF i < terms - 1
    THEN gaussian_loop_one_short(F,
             gaussian_add(F, acc.sum, RandomNormalized(F, acc.e), acc.drawn),
             i + 1, terms)
    ELSE acc

\* the loop of Random::gaussian: for(i = 0; i < 12; ++i) sum += normalized<F>()
RECURSIVE gaussian_loop(_, _, _, _)
gaussian_loop(F, acc, i, terms) ==
    IF i < terms
    THEN gaussian_loop(F,
             gaussian_add(F, acc.sum, RandomNormalized(F, acc.e), acc.drawn),
             i + 1, terms)
    ELSE acc

\* return mean + (sum - F(6)) * stddev, mean and stddev whole numbers
gaussian_result(F, acc, mean, stddev) ==
    LET one == Pow2(F.mant)
        centred == FloatRound(F, acc.sum - GAUSSIAN_SHIFT * one)
        scaled == FloatRound(F, centred * stddev)
    IN  [e |-> acc.e,
         ret |-> [finite |-> TRUE, num |-> FloatRound(F, mean * one + scaled),
                  den |-> one],
         drawn |-> acc.drawn]

\* Random::gaussian(mean, stddev)
RandomGaussian(F, g, mean, stddev) ==
    gaussian_result(F,
        gaussian_loop(F, [e |-> g, sum |-> 0, drawn |-> <<>>], 0, GAUSSIAN_TERMS),
        mean, stddev)

\* Random::seed(): _e = E{}
RandomSeed(g) == EngineDefault(g.kind)

\* Random::seed(v): _e.seed(v)
RandomSeedValue(g, v) == EngineReseed(g, v)

\* Random::discard(n)
RandomDiscard(g, n) == EngineDiscard(g, n)

\* std::uint64_t, the type split() draws its seed material in
UInt64 == [name |-> "unsigned long long", bits |-> WordBits, signed |-> FALSE,
           promoted |-> FALSE]

\* the domain tag of split() (0x53504C49542D3031), its low 16 bits
SPLIT_TAG == 12337

\* the constants of the avalanche inlined in split() (0x9E3779B97F4A7C15,
\* 0x9E6C63D0676A9A99, 0x9E6D62D06F6A9A9B), their low 16 bits
SPLIT_GOLDEN == 31765
SPLIT_MUL1 == 39577
SPLIT_MUL2 == 39579

\* the avalanche inlined in Random::split
split_mix(seed) ==
    LET s1 == BitXor(seed, Wrap(SPLIT_GOLDEN, WordBits))
        s2 == BitXor(s1, BitXor(Rotr(s1, Scaled(25), WordBits),
                                Rotr(s1, Scaled(47), WordBits)))
        s3 == Wrap(s2 * Wrap(SPLIT_MUL1, WordBits), WordBits)
        s4 == BitXor(s3, BitXor(Shr(s3, Scaled(23)), Shr(s3, Scaled(51))))
        s5 == Wrap(s4 * Wrap(SPLIT_MUL2, WordBits), WordBits)
    IN  BitXor(s5, BitXor(Shr(s5, Scaled(23)), Shr(s5, Scaled(51))))

\* the seed split() mixes from its two words: a ^ rotl(b, 32) ^ tag
split_seed(a, b) ==
    BitXor(BitXor(a, Rotl(b, Scaled(32), WordBits)), Wrap(SPLIT_TAG, WordBits))

\* the end of split(): the child constructed from the mixed seed, after the
\* draws a and b
split_child(kind, a, b) ==
    [e |-> b.e, ret |-> EngineSeeded(kind, split_mix(split_seed(a.ret, b.ret))),
     drawn |-> a.drawn \o b.drawn]

\* split() from its second bits_as<std::uint64_t>() on
split_second(kind, a) == split_child(kind, a, RandomBitsAs(UInt64, a.e))

\* Random::split: ret is the child's engine
RandomSplit(g) == split_second(g.kind, RandomBitsAs(UInt64, g))

----------------------------------------------------------------------------
(* Spec: one Random<E> instance.  Init is the instance after construction, *)
(* in any engine state a constructor can produce; each action is one       *)
(* member function called on it with arguments that meet its documented    *)
(* precondition.                                                           *)

\* the largest n passed to discard(n)
MaxDiscard == 25

\* the increment PCG32(seed_val) selects: (DEFAULT_STREAM << 1) | 1
PcgDefaultInc == BitOr(Shl(Wrap(DEFAULT_STREAM, WordBits), 1, WordBits), 1)

\* Random<E>{}, Random<E>{E::from_state(...)}
Constructed ==
    {EngineDefault(k) : k \in EngineKinds}
    \cup {PCG32_from_state(s, PcgDefaultInc) : s \in U64}
    \cup {Romu_from_state(x, 1) : x \in U64}

\* the arguments between(lo, hi) is called with: the ends of I's range, the
\* values around zero and the spec's example -5, 7
EdgeValues(I) ==
    {TypeMin(I), TypeMin(I) + 1, -5, -1, 0, 1, 7, TypeMax(I) - 1, TypeMax(I)}
    \cap (TypeMin(I) .. TypeMax(I))

\* The build's 128-bit product is used by engines wider than 32 bits only
\* (random.hpp:146-152), so narrower engines are run under one build.
Init ==
    /\ build \in Builds
    /\ statics = NoStatics
    /\ e \in Constructed
    /\ value_bits(e.kind) <= HalfBits => build = "int128"
    /\ call = [op |-> "construct"]
    /\ ret = [val |-> 0]
    /\ drawn = <<>>
    /\ other = NoOther

\* rng.next(), rng()
DoNext ==
    /\ call.op = "construct"
    /\ LET r == RandomNext(e)
       IN  /\ e' = r.e
           /\ ret' = [val |-> r.ret]
           /\ drawn' = r.drawn
    /\ call' = [op |-> "next"]
    /\ UNCHANGED <<build, statics, other>>

\* rng.next(bound), rng(bound), bound > 0
DoNextBound ==
    /\ call.op = "construct"
    /\ \E bound \in 1 .. EngineMax(e.kind) :
          LET r == RandomNextBound(build, e, bound)
          IN  /\ e' = r.e
              /\ ret' = [val |-> r.ret]
              /\ drawn' = r.drawn
              /\ call' = [op |-> "next_bound", bound |-> bound, pre |-> e]
    /\ UNCHANGED <<build, statics, other>>

\* the Bounds next<Bound>() is instantiated with: one, every power of two
\* result_type holds and others
ConstBounds(kind) ==
    {1, 3, 5, EngineMax(kind)} \cup {Pow2(k) : k \in 1 .. value_bits(kind) - 1}

\* rng.next<Bound>(), T = result_type
DoNextConst ==
    /\ call.op = "construct"
    /\ \E Bound \in ConstBounds(e.kind) :
          LET r == RandomNextConst(build, ResultType(value_bits(e.kind)), e, Bound)
          IN  /\ e' = r.e
              /\ ret' = [val |-> r.ret]
              /\ drawn' = r.drawn
              /\ call' = [op |-> "next_const", bound |-> Bound, pre |-> e]
    /\ UNCHANGED <<build, statics, other>>

\* rng.between<I>(lo, hi), lo < hi and hi - lo <= E::max()
DoBetween ==
    /\ call.op = "construct"
    /\ \E I \in IntTypes :
          \E lo \in EdgeValues(I), hi \in EdgeValues(I) :
             /\ lo < hi
             /\ hi - lo <= EngineMax(e.kind)
             /\ \E traps \in BOOLEAN :
                   LET r == RandomBetween(build, traps, I, e, lo, hi)
                   IN  /\ e' = r.e
                       /\ ret' = r.ret
                       /\ drawn' = r.drawn
                       /\ call' = [op |-> "between", I |-> I, lo |-> lo,
                                   hi |-> hi]
    /\ UNCHANGED <<build, statics, other>>

\* rng.bits<T>(n), rng.bits<N, T>(), 1 <= n <= digits(T)
DoBits ==
    /\ call.op = "construct"
    /\ \E T \in UnsignedTypes :
          \E n \in 1 .. T.bits :
             LET r == RandomBits(T, e, n)
             IN  /\ e' = r.e
                 /\ ret' = [val |-> r.ret]
                 /\ drawn' = r.drawn
                 /\ call' = [op |-> "bits", T |-> T, n |-> n, pre |-> e]
    /\ UNCHANGED <<build, statics, other>>

\* rng.normalized<F>(), static_assert(mantissa_bits <= value_bits)
DoNormalized ==
    /\ call.op = "construct"
    /\ \E F \in FloatTypes :
          /\ F.mant <= value_bits(e.kind)
          /\ LET r == RandomNormalized(F, e)
             IN  /\ e' = r.e
                 /\ ret' = r.ret
                 /\ drawn' = r.drawn
                 /\ call' = [op |-> "normalized", F |-> F]
    /\ UNCHANGED <<build, statics, other>>

\* rng.discard(n): n is a result_type
DoDiscard ==
    /\ call.op = "construct"
    /\ \E n \in 0 .. MaxDiscard :
          /\ n <= EngineMax(e.kind)
          /\ e' = RandomDiscard(e, n)
          /\ call' = [op |-> "discard", n |-> n, pre |-> e]
    /\ ret' = [val |-> 0]
    /\ drawn' = <<>>
    /\ UNCHANGED <<build, statics, other>>

\* rng.engine().discard(n): n is a 64-bit count whatever the engine's width
DoEngineDiscard ==
    /\ call.op = "construct"
    /\ \E n \in 0 .. MaxDiscard :
          /\ e' = EngineDiscard(e, n)
          /\ call' = [op |-> "engine_discard", n |-> n, pre |-> e]
    /\ ret' = [val |-> 0]
    /\ drawn' = <<>>
    /\ UNCHANGED <<build, statics, other>>

\* rng.split()
DoSplit ==
    /\ call.op = "construct"
    /\ LET r == RandomSplit(e)
       IN  /\ e' = r.e
           /\ ret' = [child |-> r.ret]
           /\ drawn' = r.drawn
    /\ call' = [op |-> "split", pre |-> e]
    /\ UNCHANGED <<build, statics, other>>

\* the seeds instances are built from and reseeded with: the extremes and the seed of the tests
TwinSeeds == {0, 1, Wrap(123, WordBits), U64Max}

\* rng.seed()
DoSeed ==
    /\ call.op = "construct"
    /\ e' = RandomSeed(e)
    /\ call' = [op |-> "seed", pre |-> e]
    /\ UNCHANGED <<build, statics, ret, drawn, other>>

\* rng.seed(v)
DoSeedValue ==
    /\ call.op = "construct"
    /\ \E v \in TwinSeeds :
          /\ e' = RandomSeedValue(e, v)
          /\ call' = [op |-> "seed_value", v |-> v, pre |-> e]
    /\ UNCHANGED <<build, statics, ret, drawn, other>>

Next ==
    \/ DoNext
    \/ DoNextBound
    \/ DoNextConst
    \/ DoBetween
    \/ DoBits
    \/ DoNormalized
    \/ DoDiscard
    \/ DoEngineDiscard
    \/ DoSplit
    \/ DoSeed
    \/ DoSeedValue

Spec == Init /\ [][Next]_vars

----------------------------------------------------------------------------
(* Claims about one operation of Random<E>, checked under Spec.            *)

\* C1: next(bound) returns r with 0 <= r < bound, for every engine width,
\* every raw draw and every bound in [1, 2^w - 1].
C1_NextBoundInRange ==
    call.op = "next_bound" => (0 <= ret.val /\ ret.val < call.bound)

\* the largest bound meets the largest raw draw of a 64-bit engine on the
\* limb-decomposed build
C1_Witness ==
    /\ call.op = "next_bound"
    /\ build = "msvc_consteval"
    /\ value_bits(e.kind) = WordBits
    /\ call.bound = U64Max
    /\ drawn = <<U64Max>>
    /\ ret.val = U64Max - 1

\* C4: between(lo, hi) returns r with lo <= r < hi for every integer type,
\* every lo < hi with hi - lo <= E::max() and every raw draw, ranges wider
\* than the signed type's maximum included.
C4_BetweenInRange ==
    call.op = "between" =>
        (ret.returned /\ call.lo <= ret.val /\ ret.val < call.hi)

\* C5: bits<T>(n) returns a value strictly less than 2^n.
C5_BitsBelowPow2 ==
    call.op = "bits" => (0 <= ret.val /\ ret.val < Pow2(call.n))

\* a gathered result (n wider than the engine) with every one of its n bits
\* set, in a type wider than n
C5_Witness ==
    /\ call.op = "bits"
    /\ call.n > value_bits(e.kind)
    /\ call.n < call.T.bits
    /\ Len(drawn) = 2
    /\ ret.val = Pow2(call.n) - 1

\* C6: when 1 <= n <= w, bits(n) consumes exactly one draw x and returns
\* floor(x / 2^(w - n)), its high n bits; n = w returns x itself.
C6_BitsHighOfOneDraw ==
    (call.op = "bits" /\ call.n <= value_bits(e.kind)) =>
        /\ Len(drawn) = 1
        /\ ret.val = drawn[1] \div Pow2(value_bits(e.kind) - call.n)
        /\ call.n = value_bits(e.kind) => ret.val = drawn[1]

\* a draw whose high n bits and low n bits differ, and the take-everything
\* case on a 64-bit engine
C6_Witness ==
    /\ call.op = "bits"
    /\ call.n < value_bits(e.kind)
    /\ Len(drawn) = 1
    /\ ret.val # drawn[1] % Pow2(call.n)
    /\ ret.val = drawn[1] \div Pow2(value_bits(e.kind) - call.n)

\* C7: normalized<F>() consumes exactly one draw and returns m / 2^M, m the
\* high M bits of the draw and M the mantissa bit count of F; the result is
\* finite, >= 0 and < 1.
C7_NormalizedUnitInterval ==
    call.op = "normalized" =>
        /\ Len(drawn) = 1
        /\ ret.finite
        /\ 0 <= ret.num
        /\ ret.num < ret.den
        /\ LET M == call.F.mant
               m == drawn[1] \div Pow2(value_bits(e.kind) - M)
           IN  ret.num * Pow2(M) = m * ret.den

\* the largest mantissa: the result just below 1.0, from a draw whose low
\* bits are dropped
C7_Witness ==
    /\ call.op = "normalized"
    /\ call.F.mant < value_bits(e.kind)
    /\ drawn = <<EngineMax(e.kind)>>
    /\ ret.num = ret.den - 1

\* C8: discard(n), of the wrapper and of the engine, leaves the engine in
\* the state reached by n successive next() calls, for every engine, engine
\* state and n >= 0; discard(0) leaves the state unchanged.
C8_DiscardEqualsNextTimes ==
    call.op \in {"discard", "engine_discard"} =>
        /\ e = NextTimes(call.pre, call.n)
        /\ EngineNext(e).val = EngineNext(NextTimes(call.pre, call.n)).val
        /\ call.n = 0 => e = call.pre

\* PCG32 jumped 25 steps ahead from a state other than its default
C8_Witness ==
    /\ call.op = "engine_discard"
    /\ e.kind = "PCG32"
    /\ call.n = 25
    /\ call.pre # EngineDefault("PCG32")
    /\ e # call.pre

----------------------------------------------------------------------------
(* SpecSeeds: two engines constructed from distinct seeds and drawn from   *)
(* in step until their outputs differ, as the test                         *)
(* DifferentSeedsProduceDifferentSequences does.                           *)

\* the number of draws within which distinct seeds are to diverge
DivergeWithin == 32

\* Rng a{s1}; Rng b{s2}; bool all_equal = true;  next() takes no part of
\* the build, so one build is run.
InitSeeds ==
    /\ build = "int128"
    /\ statics = NoStatics
    /\ \E kind \in EngineKinds, s1 \in U64, s2 \in U64 :
          /\ s1 # s2
          /\ e = EngineSeeded(kind, s1)
          /\ other = [e |-> EngineSeeded(kind, s2), ret |-> [val |-> 0],
                      drawn |-> <<>>]
          /\ call = [op |-> "seeds", s1 |-> s1, s2 |-> s2, steps |-> 0,
                     all_equal |-> TRUE]
    /\ ret = [val |-> 0]
    /\ drawn = <<>>

\* one round of the loop: if(a.next() != b.next()){ all_equal = false; break; }
DrawBoth ==
    /\ call.op = "seeds"
    /\ call.all_equal
    /\ call.steps < DivergeWithin
    /\ LET ra == RandomNext(e)
           rb == RandomNext(other.e)
       IN  /\ e' = ra.e
           /\ ret' = [val |-> ra.ret]
           /\ drawn' = ra.drawn
           /\ other' = [e |-> rb.e, ret |-> [val |-> rb.ret],
                        drawn |-> rb.drawn]
           /\ call' = [call EXCEPT !.steps = @ + 1,
                                   !.all_equal = (ra.ret = rb.ret)]
    /\ UNCHANGED <<build, statics>>

NextSeeds == DrawBoth

SpecSeeds == InitSeeds /\ [][NextSeeds]_vars

\* C10: for every engine and all seeds s1 # s2 the draw sequences of E(s1)
\* and E(s2) differ somewhere within the first 32 draws.
C10_DistinctSeedsDiverge ==
    (call.op = "seeds" /\ call.steps = DivergeWithin) => ~call.all_equal

----------------------------------------------------------------------------
(* SpecTwins: two Random<E> instances, the second built from the same seed *)
(* as the first or copied from it, given the same operations in step.      *)

\* the number of operations the twins are given
MaxSteps == 2

\* Random::operator==, defaulted: compares the one member _e
RandomEq(g, h) == EngineEq(g, h)

\* the instances twins are copied from
TwinOriginals ==
    {EngineDefault(k) : k \in EngineKinds}
    \cup {PCG32_from_state(s, 1) : s \in {0, U64Max}}
    \cup {Romu_from_state(x, 1) : x \in {0, U64Max}}

\* the arguments of the operations given to twins
TwinBounds(kind) == {1, 3, EngineMax(kind)}
TwinRanges(kind) ==
    {r \in [I : IntTypes, lo : {-5, 0}, hi : {7}] \cup
           {[I |-> I, lo |-> TypeMin(I), hi |-> TypeMax(I)] : I \in IntTypes} :
        /\ TypeMin(r.I) <= r.lo
        /\ r.hi <= TypeMax(r.I)
        /\ r.hi - r.lo <= EngineMax(kind)}
TwinDiscards(kind) == {n \in {0, 1, MaxDiscard} : n <= EngineMax(kind)}

\* Rng a{seed}; Rng b{seed};  or  Rng a{...}; Rng b{a};
InitTwins ==
    /\ build \in Builds
    /\ statics = NoStatics
    /\ \/ \E kind \in EngineKinds, seed \in TwinSeeds :
             /\ e = EngineSeeded(kind, seed)
             /\ other = [e |-> EngineSeeded(kind, seed), ret |-> [val |-> 0],
                         drawn |-> <<>>]
             /\ call = [op |-> "twins", how |-> "same_seed", steps |-> 0,
                        last |-> "construct"]
       \/ /\ e \in TwinOriginals
          /\ other = [e |-> EngineCopy(e), ret |-> [val |-> 0], drawn |-> <<>>]
          /\ call = [op |-> "twins", how |-> "copy", steps |-> 0,
                     last |-> "construct"]
    /\ value_bits(e.kind) <= HalfBits => build = "int128"
    /\ ret = [val |-> 0]
    /\ drawn = <<>>

\* the state after both twins ran one operation: ra on the first, rb on the
\* second
TwinsAfter(name, ra, rb) ==
    /\ e' = ra.e
    /\ ret' = ra.ret
    /\ drawn' = ra.drawn
    /\ other' = [e |-> rb.e, ret |-> rb.ret, drawn |-> rb.drawn]
    /\ call' = [call EXCEPT !.steps = @ + 1, !.last = name]
    /\ UNCHANGED <<build, statics>>

\* an integer result as the value returned
Returned(r) == [r EXCEPT !.ret = [val |-> r.ret]]

\* a.next(); b.next();
TwinNext ==
    /\ call.op = "twins"
    /\ call.steps < MaxSteps
    /\ TwinsAfter("next", Returned(RandomNext(e)), Returned(RandomNext(other.e)))

\* a.next(bound); b.next(bound);
TwinNextBound ==
    /\ call.op = "twins"
    /\ call.steps < MaxSteps
    /\ \E bound \in TwinBounds(e.kind) :
          TwinsAfter("next_bound",
                     Returned(RandomNextBound(build, e, bound)),
                     Returned(RandomNextBound(build, other.e, bound)))

\* a.between(lo, hi); b.between(lo, hi);  both calls are compiled by the one
\* build, which decides what an overflowing addition does
TwinBetween ==
    /\ call.op = "twins"
    /\ call.steps < MaxSteps
    /\ \E r \in TwinRanges(e.kind), traps \in BOOLEAN :
          TwinsAfter("between",
                     RandomBetween(build, traps, r.I, e, r.lo, r.hi),
                     RandomBetween(build, traps, r.I, other.e, r.lo, r.hi))

\* a.bits<T>(n); b.bits<T>(n);
TwinBits ==
    /\ call.op = "twins"
    /\ call.steps < MaxSteps
    /\ \E T \in UnsignedTypes :
          \E n \in {1, T.bits} :
             TwinsAfter("bits", Returned(RandomBits(T, e, n)),
                        Returned(RandomBits(T, other.e, n)))

\* a.normalized<F>(); b.normalized<F>();
TwinNormalized ==
    /\ call.op = "twins"
    /\ call.steps < MaxSteps
    /\ \E F \in FloatTypes :
          /\ F.mant <= value_bits(e.kind)
          /\ TwinsAfter("normalized", RandomNormalized(F, e),
                        RandomNormalized(F, other.e))

\* a.discard(n); b.discard(n);
TwinDiscard ==
    /\ call.op = "twins"
    /\ call.steps < MaxSteps
    /\ \E n \in TwinDiscards(e.kind) :
          TwinsAfter("discard",
                     [e |-> RandomDiscard(e, n), ret |-> [val |-> 0],
                      drawn |-> <<>>],
                     [e |-> RandomDiscard(other.e, n), ret |-> [val |-> 0],
                      drawn |-> <<>>])

\* a.split(); b.split();
TwinSplit ==
    /\ call.op = "twins"
    /\ call.steps < MaxSteps
    /\ LET ra == RandomSplit(e)
           rb == RandomSplit(other.e)
       IN  TwinsAfter("split", [ra EXCEPT !.ret = [child |-> ra.ret]],
                      [rb EXCEPT !.ret = [child |-> rb.ret]])

NextTwins ==
    \/ TwinNext
    \/ TwinNextBound
    \/ TwinBetween
    \/ TwinBits
    \/ TwinNormalized
    \/ TwinDiscard
    \/ TwinSplit

SpecTwins == InitTwins /\ [][NextTwins]_vars

----------------------------------------------------------------------------
(* Claims about split() *)

C12_SplitTakesTwoDraws ==
    call.op = "split" =>
        /\ Len(drawn) = 2
        /\ e = NextTimes(call.pre, 2)

----------------------------------------------------------------------------
(* SpecDist: the bounded draws as functions of the raw draw.  Init draws a *)
(* build, an engine width and a bound; an action maps every raw draw of    *)
(* that width through one of the two overloads.                            *)

InitDist ==
    /\ build \in Builds
    /\ statics = NoStatics
    /\ e = NoEngine
    /\ \E kind \in EngineKinds :
          \E bound \in 1 .. EngineMax(kind) :
             call = [op |-> "bound", vb |-> value_bits(kind), bound |-> bound]
    /\ call.vb <= HalfBits => build = "int128"
    /\ ret = [val |-> 0]
    /\ drawn = <<>>
    /\ other = NoOther

\* next(bound) on every raw draw
MapNextBound ==
    /\ call.op = "bound"
    /\ ret' = [out |-> [x \in 0 .. Pow2(call.vb) - 1 |->
                          reduce(build, call.vb, x, call.bound)]]
    /\ call' = [call EXCEPT !.op = "next_bound"]
    /\ UNCHANGED <<build, statics, e, drawn, other>>

\* next<Bound>() on every raw draw, Bound > 1
MapNextConst ==
    /\ call.op = "bound"
    /\ call.bound > 1
    /\ ret' = [out |-> [x \in 0 .. Pow2(call.vb) - 1 |->
                          next_const_of_draw(build, ResultType(call.vb), call.vb,
                                             x, call.bound)]]
    /\ call' = [call EXCEPT !.op = "next_const"]
    /\ UNCHANGED <<build, statics, e, drawn, other>>

NextDist == MapNextBound \/ MapNextConst

SpecDist == InitDist /\ [][NextDist]_vars

\* the number of raw draws mapped to v
Preimages(out, v) == Cardinality({x \in DOMAIN out : out[x] = v})

\* C13: over all 2^w raw draws, next(bound) maps floor(2^w / bound) or
\* ceil(2^w / bound) draws to each output in [0, bound), and exactly
\* 2^w / bound when bound is a power of two.
C13_BiasAtMostOne ==
    call.op = "next_bound" =>
        LET total == Pow2(call.vb)
            low == total \div call.bound
            high == (total + call.bound - 1) \div call.bound
        IN  \A v \in 0 .. call.bound - 1 :
               LET n == Preimages(ret.out, v)
               IN  /\ n \in {low, high}
                   /\ BitAnd(call.bound, call.bound - 1) = 0
                         => n * call.bound = total

\* a bound that does not divide 2^w on a 64-bit engine: some output has
\* floor and some ceil preimages
C13_Witness ==
    /\ call.op = "next_bound"
    /\ call.vb = WordBits
    /\ build = "msvc_consteval"
    /\ call.bound = 3
    /\ Preimages(ret.out, 0) = (Pow2(call.vb) \div 3) + 1
    /\ Preimages(ret.out, 1) = Pow2(call.vb) \div 3

\* C14: for a power-of-two Bound = 2^k, k >= 1, next<Bound>() and
\* next(Bound) produce each value of [0, Bound) equally often over all raw
\* draws, and no other value.
C14_ExtractEqualsMultiplyShift ==
    (/\ call.op = "next_const"
     /\ BitAnd(call.bound, call.bound - 1) = 0) =>
        \A v \in 0 .. Pow2(call.vb) - 1 :
           LET fast == Preimages(ret.out, v)
               general == Cardinality({x \in DOMAIN ret.out :
                              reduce(build, call.vb, x, call.bound) = v})
           IN  /\ fast = general
               /\ v >= call.bound => fast = 0
               /\ v < call.bound => fast * call.bound = Pow2(call.vb)

\* the largest power of two a 64-bit bound can be, every value produced
C14_Witness ==
    /\ call.op = "next_const"
    /\ call.vb = WordBits
    /\ call.bound = Pow2(WordBits - 1)
    /\ Preimages(ret.out, call.bound - 1) = 2
    /\ ret.out[U64Max] = call.bound - 1

----------------------------------------------------------------------------
(* Claims about a bound of one, under Spec.                                *)

\* C15: next<1>() returns 0 without drawing and leaves the engine as it
\* was; next(1) returns 0 and advances the engine by exactly one draw.
C15_BoundOnePaths ==
    /\ (call.op = "next_const" /\ call.bound = 1) =>
          /\ ret.val = 0
          /\ drawn = <<>>
          /\ e = call.pre
    /\ (call.op = "next_bound" /\ call.bound = 1) =>
          /\ ret.val = 0
          /\ Len(drawn) = 1
          /\ e = NextTimes(call.pre, 1)

\* next<1>() on a seeded PCG32 whose next draw would have moved it
C15_Witness ==
    /\ call.op = "next_const"
    /\ call.bound = 1
    /\ e.kind = "PCG32"
    /\ e # EngineDefault("PCG32")
    /\ e = call.pre
    /\ NextTimes(e, 1) # e
    /\ ret.val = 0

----------------------------------------------------------------------------
(* SpecPre: operations called with and without their preconditions, in     *)
(* builds with and without assertions.                                     *)

\* the engines the calls are made on
PreEngines ==
    {EngineDefault(k) : k \in EngineKinds}
    \cup {EngineSeeded(k, seed) : k \in EngineKinds, seed \in {1, U64Max}}

\* std::vector<int> of the given size
Collection(size) == [i \in 1 .. size |-> 100 + i]

\* the sizes of the collections: empty, small, the most an engine can index
\* and one more
CollectionSizes(kind) ==
    {0, 1, 2, 3, EngineMax(kind), EngineMax(kind) + 1} \cap (0 .. U64Max)

InitPre ==
    /\ build \in Builds
    /\ statics = NoStatics
    /\ e \in PreEngines
    /\ value_bits(e.kind) <= HalfBits => build = "int128"
    /\ \E NDEBUG \in BOOLEAN : call = [op |-> "construct", NDEBUG |-> NDEBUG]
    /\ ret = [val |-> 0]
    /\ drawn = <<>>
    /\ other = NoOther

\* rng.between<I>(lo, hi)
CallBetween ==
    /\ call.op = "construct"
    /\ \E I \in IntTypes :
          \E lo \in EdgeValues(I), hi \in EdgeValues(I), traps \in BOOLEAN :
             LET r == RandomBetweenAny(build, call.NDEBUG, traps, I, e, lo, hi)
             IN  /\ e' = r.e
                 /\ ret' = r.ret
                 /\ drawn' = r.drawn
                 /\ call' = [op |-> "between", NDEBUG |-> call.NDEBUG, I |-> I,
                             lo |-> lo, hi |-> hi, pre |-> e]
    /\ UNCHANGED <<build, statics, other>>

\* rng.next(bound)
CallNextBound ==
    /\ call.op = "construct"
    /\ \E bound \in {0, 1, 3, EngineMax(e.kind)} :
          LET r == RandomNextBoundAny(build, call.NDEBUG, e, bound)
          IN  /\ e' = r.e
              /\ ret' = r.ret
              /\ drawn' = r.drawn
              /\ call' = [op |-> "next_bound", NDEBUG |-> call.NDEBUG,
                          bound |-> bound, pre |-> e]
    /\ UNCHANGED <<build, statics, other>>

\* rng.index(collection)
CallIndex ==
    /\ call.op = "construct"
    /\ \E size \in CollectionSizes(e.kind) :
          LET r == RandomIndex(build, call.NDEBUG, e, size)
          IN  /\ e' = r.e
              /\ ret' = r.ret
              /\ drawn' = r.drawn
              /\ call' = [op |-> "index", NDEBUG |-> call.NDEBUG,
                          size |-> size, pre |-> e]
    /\ UNCHANGED <<build, statics, other>>

\* rng.iterator(collection)
CallIterator ==
    /\ call.op = "construct"
    /\ \E size \in CollectionSizes(e.kind) :
          LET r == RandomIterator(build, call.NDEBUG, e, size)
          IN  /\ e' = r.e
              /\ ret' = r.ret
              /\ drawn' = r.drawn
              /\ call' = [op |-> "iterator", NDEBUG |-> call.NDEBUG,
                          size |-> size, pre |-> e]
    /\ UNCHANGED <<build, statics, other>>

\* rng.element(collection)
CallElement ==
    /\ call.op = "construct"
    /\ \E size \in CollectionSizes(e.kind), traps \in BOOLEAN,
          garbage \in {0, 101} :
          LET r == Random_element(build, call.NDEBUG, traps, e, Collection(size),
                                  garbage)
          IN  /\ e' = r.e
              /\ ret' = r.ret
              /\ drawn' = r.drawn
              /\ call' = [op |-> "element", NDEBUG |-> call.NDEBUG,
                          size |-> size, pre |-> e]
    /\ UNCHANGED <<build, statics, other>>

NextPre ==
    CallBetween \/ CallNextBound \/ CallIndex \/ CallIterator \/ CallElement

SpecPre == InitPre /\ [][NextPre]_vars

\* C16: between(lo, hi) with lo >= hi fails its assertion when assertions
\* are enabled; with assertions disabled it returns lo, draws nothing,
\* leaves the engine as it was and does no arithmetic that could overflow.
C16_InvertedRangeFallback ==
    (call.op = "between" /\ call.lo >= call.hi) =>
        /\ drawn = <<>>
        /\ e = call.pre
        /\ IF call.NDEBUG
           THEN ~ret.asserted /\ ret.returned /\ ret.val = call.lo
           ELSE ret.asserted /\ ~ret.returned

\* assertions disabled, an int range from the largest down to the smallest
\* value (hi - lo does not fit int), on a seeded engine
C16_Witness ==
    /\ call.op = "between"
    /\ call.NDEBUG
    /\ call.I.name = "int"
    /\ call.lo = TypeMax(call.I)
    /\ call.hi = TypeMin(call.I)
    /\ ret.returned
    /\ ret.val = call.lo
    /\ e = EngineSeeded("PCG32", 1)
    /\ NextTimes(e, 1) # e

\* C17 as stated: between(lo, hi) with hi - lo above E::max() is reported as
\* a precondition violation, no result is computed from a truncated bound.
C17_TooWideAlwaysReported ==
    (call.op = "between" /\ call.lo < call.hi
       /\ call.hi - call.lo > EngineMax(e.kind)) =>
        /\ ret.asserted
        /\ drawn = <<>>

\* C17: between(lo, hi) with hi - lo above E::max() fails its assertion when
\* assertions are enabled; with assertions disabled the bound is truncated
\* to the engine's width and lo + next(truncated bound) is returned after
\* one draw.
C17_TooWideReportedInDebug ==
    (call.op = "between" /\ call.lo < call.hi
       /\ call.hi - call.lo > EngineMax(e.kind)) =>
        IF call.NDEBUG
        THEN /\ ~ret.asserted
             /\ ret.returned
             /\ Len(drawn) = 1
             /\ e = NextTimes(call.pre, 1)
             /\ ret.val = call.lo
                   + reduce(build, value_bits(e.kind), drawn[1],
                            (call.hi - call.lo) % Pow2(value_bits(e.kind)))
        ELSE /\ ret.asserted
             /\ ~ret.returned
             /\ drawn = <<>>
             /\ e = call.pre

\* assertions disabled, a 64-bit range wider than a 32-bit engine's maximum:
\* a value near lo comes back, far below hi
C17_Witness ==
    /\ call.op = "between"
    /\ call.NDEBUG
    /\ e.kind = "PCG32"
    /\ call.I.name = "long long"
    /\ call.hi - call.lo > EngineMax(e.kind)
    /\ (call.hi - call.lo) % Pow2(value_bits(e.kind)) > 1
    /\ ret.returned
    /\ ret.val > call.lo
    /\ ret.val < call.lo + ((call.hi - call.lo) % Pow2(value_bits(e.kind)))

\* C18: for a collection of 1 <= size <= E::max() elements, index() returns
\* i with 0 <= i < size after exactly one draw, iterator() is begin() + i
\* for such an i (never end()) and element() is the element there; on an
\* empty collection the assertion fails when assertions are enabled.
C18_IndexInCollection ==
    /\ (/\ call.op \in {"index", "iterator", "element"}
        /\ 1 <= call.size
        /\ call.size <= EngineMax(e.kind)) =>
          /\ ~ret.asserted
          /\ ret.returned
          /\ Len(drawn) = 1
          /\ e = NextTimes(call.pre, 1)
          /\ LET i == reduce(build, value_bits(e.kind), drawn[1], call.size)
             IN  /\ 0 <= i /\ i < call.size
                 /\ ret.val = IF call.op = "element"
                              THEN Collection(call.size)[i + 1]
                              ELSE i
    /\ (/\ call.op \in {"index", "iterator", "element"}
        /\ call.size = 0
        /\ ~call.NDEBUG) =>
          ret.asserted /\ drawn = <<>>

\* element() on the largest collection a 32-bit engine can index, returning
\* an element past the first
C18_Witness ==
    /\ call.op = "element"
    /\ e.kind = "PCG32"
    /\ call.size = EngineMax(e.kind)
    /\ Len(drawn) = 1
    /\ ret.returned
    /\ \E i \in 2 .. call.size : ret.val = Collection(call.size)[i]

----------------------------------------------------------------------------
(* Claims about reseeding and the range of next(), under Spec.             *)

\* the first n draws of an engine
RECURSIVE Draws(_, _)
Draws(g, n) ==
    IF n = 0 THEN <<>> ELSE <<EngineNext(g).val>> \o Draws(EngineNext(g).e, n - 1)

\* C19: whatever state the generator is in, seed() leaves it equal to a
\* default-constructed Random<E> and seed(v) equal to Random<E>(v), and the
\* draws that follow are those of the newly constructed generator.
C19_ReseedEqualsConstruct ==
    /\ call.op = "seed" =>
          /\ RandomEq(e, EngineDefault(e.kind))
          /\ Draws(e, 3) = Draws(EngineDefault(e.kind), 3)
    /\ call.op = "seed_value" =>
          /\ RandomEq(e, EngineSeeded(e.kind, call.v))
          /\ Draws(e, 3) = Draws(EngineSeeded(e.kind, call.v), 3)

\* seed(v) on a PCG32 that was neither default-constructed nor built from v
C19_Witness ==
    /\ call.op = "seed_value"
    /\ e.kind = "PCG32"
    /\ call.v = U64Max
    /\ call.pre # EngineDefault("PCG32")
    /\ call.pre # e
    /\ call.pre.state # 0
    /\ Draws(call.pre, 3) # Draws(e, 3)
    /\ e = EngineSeeded("PCG32", U64Max)

\* C20: next() returns a value in [min(), max()): the raw draw is never
\* equal to max().
C20_NextBelowMax ==
    call.op = "next" => (0 <= ret.val /\ ret.val < EngineMax(e.kind))

----------------------------------------------------------------------------
(* Claims about gathering more bits than one draw holds, under Spec.       *)

\* the bits draw i of a gathering of n bits contributes: the high
\* min(w, n - (i - 1) * w) bits of the draw
Chunk(w, n, raws, i) ==
    LET filled == (i - 1) * w
        take == IF w < n - filled THEN w ELSE n - filled
    IN  raws[i] \div Pow2(w - take)

\* the chunks of draws i .. Len(raws) laid side by side, draw i lowest
RECURSIVE LowToHigh(_, _, _, _)
LowToHigh(w, n, raws, i) ==
    IF i > Len(raws) THEN 0
    ELSE Chunk(w, n, raws, i) + Pow2(w) * LowToHigh(w, n, raws, i + 1)

\* C24 as stated: when bits(n) needs more than one draw, the bits of the
\* first draw are the most significant of the n-bit result.
C24_FirstDrawHighest ==
    (call.op = "bits" /\ call.n > value_bits(e.kind)) =>
        ret.val \div Pow2(call.n - value_bits(e.kind)) = drawn[1]

\* C24: when bits(n) needs more than one draw, the accumulator is filled
\* low-to-high: the bits of the first draw are the least significant of the
\* result and each later draw fills the next higher positions.
C24_FirstDrawLowest ==
    (call.op = "bits" /\ call.n > value_bits(e.kind)) =>
        /\ ret.val % Pow2(value_bits(e.kind)) = drawn[1]
        /\ ret.val = LowToHigh(value_bits(e.kind), call.n, drawn, 1)

\* two unequal draws gathered into a full 64-bit result whose halves differ
C24_Witness ==
    /\ call.op = "bits"
    /\ call.n = WordBits
    /\ value_bits(e.kind) = HalfBits
    /\ Len(drawn) = 2
    /\ drawn[1] # drawn[2]
    /\ ret.val = drawn[1] + Pow2(HalfBits) * drawn[2]

\* C25: for w < n <= digits(T) the gathering loop of bits<T>(n) ends after
\* exactly ceil(n / w) draws, draw i contributes its high min(w, n - filled)
\* bits at positions no earlier draw used, and the result is below 2^n.
C25_GatherTerminates ==
    (call.op = "bits" /\ call.n > value_bits(e.kind)) =>
        LET w == value_bits(e.kind)
            draws == (call.n + w - 1) \div w
        IN  /\ Len(drawn) = draws
            /\ e = NextTimes(call.pre, draws)
            /\ \A i \in 1 .. draws :
                  (ret.val \div Pow2((i - 1) * w)) % Pow2(w)
                     = Chunk(w, call.n, drawn, i)
            /\ 0 <= ret.val /\ ret.val < Pow2(call.n)

\* a gathering whose last draw gives fewer bits than it holds, some of the
\* bits it does not give being set
C25_Witness ==
    /\ call.op = "bits"
    /\ call.n > value_bits(e.kind)
    /\ call.n < call.T.bits
    /\ call.n % value_bits(e.kind) # 0
    /\ Len(drawn) = 2
    /\ drawn[2] % 2 = 1
    /\ ret.val < Pow2(call.n)
    /\ ret.val >= Pow2(call.n - 1)

----------------------------------------------------------------------------
(* Claims about the two overloads of next on one draw, under Spec.         *)

\* C30: for a power-of-two Bound = 2^k, k >= 1, and every engine state,
\* next<Bound>() returns what next(Bound) returns from that state, the high
\* k bits of the one draw, and leaves the engine in the same state.
C30_ExtractEqualsMultiplyShiftPerValue ==
    (/\ call.op = "next_const"
     /\ call.bound > 1
     /\ BitAnd(call.bound, call.bound - 1) = 0) =>
        LET w == value_bits(e.kind)
            k == CeilLog2(call.bound)
            runtime == RandomNextBound(build, call.pre, call.bound)
        IN  /\ ret.val = runtime.ret
            /\ e = runtime.e
            /\ drawn = runtime.drawn
            /\ ret.val = drawn[1] \div Pow2(w - k)

\* the largest power of two of a 64-bit engine, on a draw whose high and low
\* bits differ
C30_Witness ==
    /\ call.op = "next_const"
    /\ value_bits(e.kind) = WordBits
    /\ call.bound = Pow2(WordBits - 1)
    /\ Len(drawn) = 1
    /\ ret.val = drawn[1] \div 2
    /\ ret.val # drawn[1] % call.bound
    /\ e # call.pre

----------------------------------------------------------------------------
(* Claims about a bound of zero, under SpecPre.                            *)

\* C29: next(0) fails its assertion when assertions are enabled; with
\* assertions disabled it takes exactly one draw and returns 0, by a
\* multiplication and a shift, without dividing.
C29_NextZeroFallback ==
    (call.op = "next_bound" /\ call.bound = 0) =>
        IF call.NDEBUG
        THEN /\ ~ret.asserted
             /\ ret.returned
             /\ ret.val = 0
             /\ Len(drawn) = 1
             /\ e = NextTimes(call.pre, 1)
        ELSE /\ ret.asserted
             /\ ~ret.returned
             /\ drawn = <<>>
             /\ e = call.pre

\* next(0) without assertions on a 64-bit engine whose draw is not zero
C29_Witness ==
    /\ call.op = "next_bound"
    /\ call.bound = 0
    /\ call.NDEBUG
    /\ value_bits(e.kind) = WordBits
    /\ build = "msvc_runtime"
    /\ Len(drawn) = 1
    /\ drawn[1] > 0
    /\ ret.val = 0

----------------------------------------------------------------------------
(* SpecPcg: one PCG32 engine through its public interface.  Init is the    *)
(* engine after any of its constructions, each action one member function. *)

\* the seeds, sequences and states PCG32 is constructed and reseeded with
PcgValues == {0, 1, 2, Wrap(DEFAULT_STREAM, WordBits), U64Max}

\* PCG32{}, PCG32{seed}, PCG32{seed, sequence}, PCG32::from_state(state, inc)
InitPcg ==
    /\ build = "int128"
    /\ statics = NoStatics
    /\ \/ e = PCG32_seed(Wrap(DEFAULT_SEED, WordBits), Wrap(DEFAULT_STREAM, WordBits))
          /\ call = [op |-> "default", steps |-> 0]
       \/ \E v \in PcgValues :
             /\ e = PCG32_seed(v, Wrap(DEFAULT_STREAM, WordBits))
             /\ call = [op |-> "seeded", steps |-> 0]
       \/ \E v \in PcgValues, sequence \in PcgValues :
             /\ e = PCG32_seed(v, sequence)
             /\ call = [op |-> "seeded_sequence", steps |-> 0]
       \/ \E state_val \in PcgValues, inc_val \in U64 :
             /\ e = PCG32_from_state(state_val, inc_val)
             /\ call = [op |-> "from_state", steps |-> 0]
    /\ ret = [child |-> NoEngine]
    /\ drawn = <<>>
    /\ other = NoOther

\* g.next()
PcgNext ==
    /\ call.steps < MaxSteps
    /\ e' = PCG32_next(e).e
    /\ call' = [op |-> "next", steps |-> call.steps + 1]
    /\ UNCHANGED <<build, statics, ret, drawn, other>>

\* g.seed()
PcgSeed ==
    /\ call.steps < MaxSteps
    /\ e' = PCG32_reseed(e, Wrap(DEFAULT_SEED, WordBits), Wrap(DEFAULT_STREAM, WordBits))
    /\ call' = [op |-> "seed", steps |-> call.steps + 1]
    /\ UNCHANGED <<build, statics, ret, drawn, other>>

\* g.seed(v, sequence)
PcgSeedSequence ==
    /\ call.steps < MaxSteps
    /\ \E v \in PcgValues, sequence \in PcgValues :
          e' = PCG32_reseed(e, v, sequence)
    /\ call' = [op |-> "seed_sequence", steps |-> call.steps + 1]
    /\ UNCHANGED <<build, statics, ret, drawn, other>>

\* g.discard(n)
PcgDiscard ==
    /\ call.steps < MaxSteps
    /\ \E n \in {0, 1, MaxDiscard} : e' = PCG32_discard(e, n)
    /\ call' = [op |-> "discard", steps |-> call.steps + 1]
    /\ UNCHANGED <<build, statics, ret, drawn, other>>

\* PCG32 child = g.split()
PcgSplit ==
    /\ call.steps < MaxSteps
    /\ e' = PCG32_split(e).e
    /\ ret' = [child |-> PCG32_split(e).ret]
    /\ call' = [op |-> "split", steps |-> call.steps + 1]
    /\ UNCHANGED <<build, statics, drawn, other>>

NextPcg == PcgNext \/ PcgSeed \/ PcgSeedSequence \/ PcgDiscard \/ PcgSplit

SpecPcg == InitPcg /\ [][NextPcg]_vars

\* C27: inc is odd in every reachable state of a PCG32, the engine's own and
\* that of a child split() returned.
C27_IncAlwaysOdd ==
    /\ e.inc % 2 = 1
    /\ ret.child # NoEngine => ret.child.inc % 2 = 1

----------------------------------------------------------------------------
(* SpecGauss: gaussian() called again and again on one Random<E>.          *)

\* the means and standard deviations gaussian() is called with
Means == {-1, 0, 5}
Stddevs == {1, 2, 3}

InitGauss ==
    /\ build = "int128"
    /\ statics = NoStatics
    /\ e \in PreEngines
    /\ call = [op |-> "construct", steps |-> 0]
    /\ ret = [finite |-> TRUE, num |-> 0, den |-> 1]
    /\ drawn = <<>>
    /\ other = NoOther

\* rng.gaussian<F>(mean, stddev)
CallGaussian ==
    /\ call.steps < MaxSteps
    /\ \E F \in FloatTypes, mean \in Means, stddev \in Stddevs :
          /\ F.mant <= value_bits(e.kind)
          /\ LET r == RandomGaussian(F, e, mean, stddev)
             IN  /\ e' = r.e
                 /\ ret' = r.ret
                 /\ drawn' = r.drawn
          /\ call' = [op |-> "gaussian", steps |-> call.steps + 1, F |-> F,
                      mean |-> mean, stddev |-> stddev, pre |-> e]
    /\ UNCHANGED <<build, statics, other>>

NextGauss == CallGaussian

SpecGauss == InitGauss /\ [][NextGauss]_vars

\* the sum, in F, of the values normalized<F>() makes of the draws
\* i .. Len(raws) added to sum, in units of 2^-F.mant
RECURSIVE SumOfDraws(_, _, _, _, _)
SumOfDraws(F, w, raws, i, sum) ==
    IF i > Len(raws) THEN sum
    ELSE SumOfDraws(F, w, raws, i + 1,
                    FloatRound(F, sum + raws[i] \div Pow2(w - F.mant)))

\* C26: every call of gaussian(mean, stddev), the first and the later ones,
\* takes exactly 12 draws, sums the 12 normalized() values of those draws
\* and returns mean + (sum - 6) * stddev: a function of the engine state
\* before the call and the arguments alone.
C26_GaussianTwelveDraws ==
    call.op = "gaussian" =>
        LET F == call.F
            one == Pow2(F.mant)
            sum == SumOfDraws(F, value_bits(e.kind), drawn, 1, 0)
        IN  /\ Len(drawn) = 12
            /\ e = NextTimes(call.pre, 12)
            /\ \A i \in 1 .. 12 : drawn[i] = EngineNext(NextTimes(call.pre, i - 1)).val
            /\ ret.finite
            /\ ret.den = one
            /\ ret.num = FloatRound(F, call.mean * one
                            + FloatRound(F, FloatRound(F, sum - 6 * one)
                                            * call.stddev))

\* a second call in a row, as before on twelve new draws, its result away
\* from the mean
C26_Witness ==
    /\ call.op = "gaussian"
    /\ call.steps = 2
    /\ Len(drawn) = 12
    /\ call.stddev = 3
    /\ ret.num # call.mean * ret.den
    /\ e # call.pre

----------------------------------------------------------------------------
(* SmallFast_32.h and PCG32.hpp: the standalone generators.  Their words   *)
(* are 32 bits (HalfBits here), the state of PCG32 64 bits (WordBits).     *)

\* a rotate amount the source tunes for 32-bit words, at the model's size
Scaled32(k) == (k * HalfBits) \div 32

\* the initial a of SmallFast32 (0xf1ea5eed) and its default seed
\* (0xBADC0FFE), their low 16 bits; the length of its warm-up
SF32_A0 == 24301
SF32_DEFAULT_SEED == 4094
SF32_WARMUP == 20

\* SmallFast32::rot
SF32_rot(x, k) == BitOr(Shl(x, k, HalfBits), Shr(x, HalfBits - k))

\* SmallFast32::next
SF32_next(g) ==
    LET t == Wrap(g.a + Pow2(HalfBits) - SF32_rot(g.b, Scaled32(27)), HalfBits)
        a == BitXor(g.b, SF32_rot(g.c, Scaled32(17)))
        b == Wrap(g.c + g.d, HalfBits)
        c == Wrap(g.d + t, HalfBits)
        d == Wrap(t + a, HalfBits)
    IN  [e |-> [kind |-> "SmallFast32", a |-> a, b |-> b, c |-> c, d |-> d],
         val |-> d]

\* the warm-up loop of SmallFast32(seed)
RECURSIVE SF32_warmup(_, _)
SF32_warmup(g, n) == IF n = 0 THEN g ELSE SF32_warmup(SF32_next(g).e, n - 1)

\* SmallFast32(seed)
SF32_seeded(seed) ==
    SF32_warmup([kind |-> "SmallFast32", a |-> Wrap(SF32_A0, HalfBits), b |-> seed,
                 c |-> seed, d |-> seed], SF32_WARMUP)

\* SmallFast32(std::span<const u32, 4> state)
SF32_from_span(state) ==
    [kind |-> "SmallFast32", a |-> state[1], b |-> state[2], c |-> state[3],
     d |-> state[4]]

\* the constants of PCG32.hpp, their low 16 bits
PCG32_DEFAULT_SEED == 60059
PCG32_DEFAULT_STREAM == 23515
PCG32_MULT == 32557

\* PCG32::next of PCG32.hpp: xorshifted and rot stay 64-bit words, the shift
\* count of the left half of the rotation is (~rot + 1) & 31, and the sum
\* takes inc | 1
LegacyPCG32_next(g) ==
    LET oldstate == g.state
        xorshifted == Shr(BitXor(Shr(oldstate, (HalfBits + PcgRotBits) \div 2),
                                 oldstate), HalfBits - PcgRotBits)
        rot == Shr(oldstate, WordBits - PcgRotBits)
        back == (HalfBits - (rot % HalfBits)) % HalfBits
    IN  [e |-> [g EXCEPT !.state =
                   Wrap(oldstate * Wrap(PCG32_MULT, WordBits) + BitOr(g.inc, 1),
                        WordBits)],
         val |-> Wrap(BitOr(Shr(xorshifted, rot), Shl(xorshifted, back, WordBits)),
                      HalfBits)]

\* PCG32() of PCG32.hpp
LegacyPCG32_default ==
    [kind |-> "LegacyPCG32", state |-> Wrap(PCG32_DEFAULT_SEED, WordBits),
     inc |-> Wrap(PCG32_DEFAULT_STREAM, WordBits)]

\* PCG32::seed(seed_, seq_) of PCG32.hpp, as PCG32(seed_, seq_) runs it
LegacyPCG32_seed(seed_, seq_) ==
    LET g0 == [kind |-> "LegacyPCG32", state |-> 0,
               inc |-> BitOr(Shl(seq_, 1, WordBits), 1)]
        g1 == LegacyPCG32_next(g0).e
        g2 == [g1 EXCEPT !.state = Wrap(g1.state + seed_, WordBits)]
    IN  LegacyPCG32_next(g2).e

\* next() of a standalone generator
StandaloneNext(g) ==
    IF g.kind = "SmallFast32" THEN SF32_next(g) ELSE LegacyPCG32_next(g)

\* next(bound) never rejecting
rejection_threshold_none(kind, bound) == 0

\* the rejection threshold of next(bound): -bound % bound in SmallFast32,
\* 2^32 - bound reduced in up to three steps in PCG32
rejection_threshold(kind, bound) ==
    LET negated == Wrap(Pow2(HalfBits) - bound, HalfBits)
    IN  IF kind = "SmallFast32" THEN negated % bound
        ELSE IF negated >= bound
             THEN IF negated - bound >= bound
                  THEN (negated - bound) % bound
                  ELSE negated - bound
             ELSE negated

\* one multiplication of next(bound) on the raw draw x: the 64-bit product,
\* whether its low word lets the loop end, and its high word
lemire_try(kind, x, bound) ==
    LET long_mult == Wrap(x * bound, WordBits)
        low_bits == Wrap(long_mult, HalfBits)
    IN  [accepted |-> ~(low_bits < bound
                         /\ low_bits < rejection_threshold(kind, bound)),
         val |-> Wrap(Shr(long_mult, HalfBits), HalfBits)]

\* the draws next(bound) is followed for, the first one included
MaxTries == 4

\* next(bound) of a standalone generator from the draw r on: r is used or
\* another draw is taken; after MaxTries draws the call is left in its loop
RECURSIVE lemire_from(_, _, _, _)
lemire_from(r, bound, raws, tries) ==
    IF lemire_try(r.e.kind, r.val, bound).accepted
    THEN [e |-> r.e,
          ret |-> [returned |-> TRUE, val |-> lemire_try(r.e.kind, r.val, bound).val],
          drawn |-> Append(raws, r.val)]
    ELSE IF tries <= 1
    THEN [e |-> r.e, ret |-> [returned |-> FALSE, val |-> 0],
          drawn |-> Append(raws, r.val)]
    ELSE lemire_from(StandaloneNext(r.e), bound, Append(raws, r.val), tries - 1)

\* SmallFast32::next(u32 bound), PCG32::next(u32 bound)
StandaloneNextBound(g, bound) ==
    lemire_from(StandaloneNext(g), bound, <<>>, MaxTries)

----------------------------------------------------------------------------
(* SpecLemire: next(bound) of the standalone generators, on an engine and  *)
(* on every raw draw.                                                      *)

\* SmallFast32{}, SmallFast32{seed}, SmallFast32{state}, PCG32{}, PCG32{seed}
StandaloneConstructed ==
    {SF32_seeded(Wrap(SF32_DEFAULT_SEED, HalfBits))}
    \cup {SF32_seeded(seed) : seed \in U32}
    \cup {SF32_from_span(<<a, 1, 1, 1>>) : a \in U32}
    \cup {LegacyPCG32_default}
    \cup {LegacyPCG32_seed(seed_, 1) : seed_ \in U64}

InitLemire ==
    /\ build = "int128"
    /\ statics = NoStatics
    /\ e \in StandaloneConstructed
    /\ call = [op |-> "construct"]
    /\ ret = [val |-> 0]
    /\ drawn = <<>>
    /\ other = NoOther

\* rng.next(bound), bound > 0
CallStandaloneNextBound ==
    /\ call.op = "construct"
    /\ \E bound \in 1 .. Pow2(HalfBits) - 1 :
          LET r == StandaloneNextBound(e, bound)
          IN  /\ e' = r.e
              /\ ret' = r.ret
              /\ drawn' = r.drawn
              /\ call' = [op |-> "next_bound", bound |-> bound, pre |-> e]
    /\ UNCHANGED <<build, statics, other>>

\* the multiplication of next(bound) on every raw draw
MapStandaloneNextBound ==
    /\ call.op = "construct"
    /\ \E bound \in 1 .. Pow2(HalfBits) - 1 :
          /\ ret' = [out |-> [x \in U32 |-> lemire_try(e.kind, x, bound)]]
          /\ call' = [op |-> "every_draw", bound |-> bound, pre |-> e]
    /\ UNCHANGED <<build, statics, e, drawn, other>>

NextLemire == CallStandaloneNextBound \/ MapStandaloneNextBound

SpecLemire == InitLemire /\ [][NextLemire]_vars

\* C23: next(bound) of SmallFast32 and of the PCG32 of PCG32.hpp returns a
\* value in [0, bound); a draw is rejected exactly when the low word of its
\* product with bound is below 2^32 mod bound; and among the accepted raw
\* draws every output in [0, bound) comes from exactly floor(2^32 / bound).
C23_LemireUnbiased ==
    LET w == HalfBits
        low(x) == (x * call.bound) % Pow2(w)
        leftover == Pow2(w) % call.bound
    IN  /\ call.op = "next_bound" =>
              /\ \A i \in 1 .. Len(drawn) - 1 : low(drawn[i]) < leftover
              /\ ret.returned <=> low(drawn[Len(drawn)]) >= leftover
              /\ ret.returned =>
                    /\ 0 <= ret.val /\ ret.val < call.bound
                    /\ ret.val = (drawn[Len(drawn)] * call.bound) \div Pow2(w)
        /\ call.op = "every_draw" =>
              /\ \A x \in U32 :
                    /\ ret.out[x].accepted <=> low(x) >= leftover
                    /\ ret.out[x].accepted => ret.out[x].val < call.bound
              /\ \A v \in 0 .. call.bound - 1 :
                    Cardinality({x \in U32 : /\ ret.out[x].accepted
                                             /\ ret.out[x].val = v})
                       = Pow2(w) \div call.bound

\* a call that rejected a draw and returned from the next one
C23_Witness ==
    /\ call.op = "next_bound"
    /\ call.bound = 3
    /\ ret.returned
    /\ Len(drawn) >= 2
    /\ (drawn[1] * 3) % Pow2(HalfBits) < Pow2(HalfBits) % 3
    /\ ret.val = (drawn[Len(drawn)] * 3) \div Pow2(HalfBits)

----------------------------------------------------------------------------
(* next_gaussian of the standalone generators: Marsaglia's polar method    *)
(* with the second value of a pair cached in function-local statics.       *)

\* T = float, the default template argument of next_gaussian; double is the
\* type of 'next() * 0x1.0p-64' in SmallFast64::normalized
Float_t == CHOOSE F \in FloatTypes : F.name = "float"
Double_t == CHOOSE F \in FloatTypes : F.name = "double"

\* the digits of result_type: u32 in SmallFast32, u64 in SmallFast64
standalone_bits(kind) == IF kind = "SmallFast32" THEN HalfBits ELSE WordBits

\* SmallFast64(seed) of SmallFast_64.h
StandaloneSF64_seeded(seed) ==
    NextTimes([kind |-> "SmallFast64", a |-> Wrap(SF64_A0, WordBits),
               b |-> seed, c |-> seed, d |-> seed], SF64_WARMUP)

\* next() of SmallFast32 and of the SmallFast64 of SmallFast_64.h
GaussNext(g) == IF g.kind = "SmallFast32" THEN SF32_next(g) ELSE SF64_next(g)

\* normalized<T>(): static_cast<T>(next() * 0x1.0p-32f), and
\* static_cast<T>(next() * 0x1.0p-64) through double; in units of 2^-bits
standalone_normalized(T, g) ==
    LET n == GaussNext(g)
    IN  [e |-> n.e, raw |-> n.val,
         val |-> IF g.kind = "SmallFast32" THEN FloatRound(T, n.val)
                 ELSE FloatRound(T, FloatRound(Double_t, n.val))]

\* 2.0 * m - 1.0 for a normalized<T>() result m
unit_range_of(T, m, bits) ==
    [e |-> m.e, raw |-> m.raw, val |-> FloatRound(T, 2 * m.val - Pow2(bits))]

\* unit_range<T>()
standalone_unit_range(T, g) ==
    unit_range_of(T, standalone_normalized(T, g), standalone_bits(g.kind))

\* s = u * u + v * v, in units of 2^-(2 bits)
sum_of_squares(T, u, v) ==
    FloatRound(T, FloatRound(T, u * u) + FloatRound(T, v * v))

\* do { u = unit_range(); v = unit_range(); s = u*u + v*v; }
\* while (s >= 1 || s == 0), followed for 'tries' pairs
RECURSIVE polar_loop(_, _, _, _)
RECURSIVE polar_pair(_, _, _, _, _)
polar_pair(T, u, v, raws, tries) ==
    IF sum_of_squares(T, u.val, v.val) >= Pow2(2 * standalone_bits(v.e.kind))
       \/ sum_of_squares(T, u.val, v.val) = 0
    THEN IF tries <= 1
         THEN [accepted |-> FALSE, e |-> v.e, u |-> 0, v |-> 0, s |-> 0,
               raws |-> raws \o <<u.raw, v.raw>>]
         ELSE polar_loop(T, v.e, raws \o <<u.raw, v.raw>>, tries - 1)
    ELSE [accepted |-> TRUE, e |-> v.e, u |-> u.val, v |-> v.val,
          s |-> sum_of_squares(T, u.val, v.val),
          raws |-> raws \o <<u.raw, v.raw>>]

polar_second(T, u, raws, tries) ==
    polar_pair(T, u, standalone_unit_range(T, u.e), raws, tries)

polar_loop(T, g, raws, tries) ==
    polar_second(T, standalone_unit_range(T, g), raws, tries)

\* a next_gaussian that never finds a spare
has_spare_never(st) == FALSE

\* if (hasSpare)
has_spare(st) == st.hasSpare

\* the value mean + stddev * (x * sqrt(-2 log(s) / s)) next_gaussian returns,
\* kept as the numbers it is made of
GaussianValue(cached, mean, stddev, x, s) ==
    [returned |-> TRUE, cached |-> cached, mean |-> mean, stddev |-> stddev,
     x |-> x, s |-> s]

NoGaussian ==
    [returned |-> FALSE, cached |-> FALSE, mean |-> 0, stddev |-> 0,
     x |-> 0, s |-> 0]

\* next_gaussian up to its first branch: return the spare, or set hasSpare
\* and go on to draw
next_gaussian_enter(st, inst, mean, stddev) ==
    IF has_spare(st)
    THEN [statics |-> [st EXCEPT !.hasSpare = FALSE],
          inst |-> [e |-> inst.e,
                    ret |-> GaussianValue(TRUE, mean, stddev, st.spare.x, st.spare.s),
                    drawn |-> <<>>],
          at |-> "idle"]
    ELSE [statics |-> [st EXCEPT !.hasSpare = TRUE],
          inst |-> [e |-> inst.e, ret |-> NoGaussian, drawn |-> <<>>],
          at |-> "drawing"]

\* next_gaussian from its loop on: spare = v * s; return mean + stddev * (u * s)
next_gaussian_finish(st, who, from, r, mean, stddev) ==
    IF r.accepted
    THEN [statics |-> [st EXCEPT !.spare = [x |-> r.v, s |-> r.s, raws |-> r.raws,
                                            by |-> who, from |-> from]],
          inst |-> [e |-> r.e, ret |-> GaussianValue(FALSE, mean, stddev, r.u, r.s),
                    drawn |-> r.raws],
          at |-> "idle"]
    ELSE [statics |-> st,
          inst |-> [e |-> r.e, ret |-> NoGaussian, drawn |-> r.raws],
          at |-> "looping"]

----------------------------------------------------------------------------
(* SpecSpare: two generator instances of one type, A (e, ret, drawn) and B *)
(* (other), each called from its own thread.  A call is two steps, the     *)
(* test of hasSpare and the loop with the store of the spare, and steps of *)
(* the two threads interleave.                                             *)

\* the number of next_gaussian calls made
MaxCalls == 3

Threads == {"A", "B"}

OtherThread(t) == IF t = "A" THEN "B" ELSE "A"

\* SmallFast32{seed} and SmallFast64{seed}
GaussConstructed ==
    {SF32_seeded(seed) : seed \in U32}
    \cup {StandaloneSF64_seeded(seed) : seed \in {0, 1, Wrap(SF64_DEFAULT_SEED, WordBits)}}

InstanceOf(t) == IF t = "A" THEN [e |-> e, ret |-> ret, drawn |-> drawn] ELSE other

InitSpare ==
    /\ build = "int128"
    /\ statics = NoStatics
    /\ e \in GaussConstructed
    /\ \E seed \in {0, 1} :
          other = [e |-> IF e.kind = "SmallFast32" THEN SF32_seeded(seed)
                         ELSE StandaloneSF64_seeded(seed),
                   ret |-> NoGaussian, drawn |-> <<>>]
    /\ ret = NoGaussian
    /\ drawn = <<>>
    /\ call = [op |-> "construct", who |-> "none", mean |-> 0, stddev |-> 0,
               pre |-> NoEngine, had |-> NoStatics,
               after |-> [op |-> "none", who |-> "none", clean |-> FALSE],
               steps |-> 0, clean |-> FALSE,
               at |-> [t \in Threads |-> "idle"],
               alone |-> [t \in Threads |-> TRUE],
               args |-> [t \in Threads |-> [mean |-> 0, stddev |-> 0]]]

\* what the step leaves in the instance of thread t and in the statics
Leaves(t, r) ==
    /\ statics' = r.statics
    /\ IF t = "A"
       THEN e' = r.inst.e /\ ret' = r.inst.ret /\ drawn' = r.inst.drawn
            /\ other' = other
       ELSE other' = r.inst /\ UNCHANGED <<e, ret, drawn>>

\* thread t calls next_gaussian(mean, stddev) on its instance and runs it up
\* to the test of hasSpare
GaussianEnter ==
    \E t \in Threads, mean \in {0, 5}, stddev \in {2} :
       /\ call.at[t] = "idle"
       /\ call.steps < MaxCalls
       /\ Leaves(t, next_gaussian_enter(statics, InstanceOf(t), mean, stddev))
       /\ call' = [op |-> IF has_spare(statics) THEN "cached" ELSE "begin",
                   who |-> t, mean |-> mean, stddev |-> stddev,
                   pre |-> InstanceOf(t).e, had |-> statics,
                   after |-> [op |-> call.op, who |-> call.who, clean |-> call.clean],
                   steps |-> call.steps + 1, clean |-> FALSE,
                   at |-> [call.at EXCEPT ![t] =
                             IF has_spare(statics) THEN "idle" ELSE "drawing"],
                   alone |-> [call.alone EXCEPT ![t] = TRUE, ![OtherThread(t)] = FALSE],
                   args |-> [call.args EXCEPT ![t] = [mean |-> mean, stddev |-> stddev]]]
       /\ UNCHANGED build

\* thread t runs the loop of its call, stores the spare and returns
GaussianDraw ==
    \E t \in Threads :
       /\ call.at[t] = "drawing"
       /\ Leaves(t, next_gaussian_finish(statics, t, InstanceOf(t).e,
                       polar_loop(Float_t, InstanceOf(t).e, <<>>, MaxTries),
                       call.args[t].mean, call.args[t].stddev))
       /\ call' = [call EXCEPT
                     !.op = IF polar_loop(Float_t, InstanceOf(t).e, <<>>, MaxTries).accepted
                            THEN "stored" ELSE "looping",
                     !.who = t,
                     !.mean = call.args[t].mean, !.stddev = call.args[t].stddev,
                     !.pre = InstanceOf(t).e, !.had = statics,
                     !.after = [op |-> call.op, who |-> call.who, clean |-> call.clean],
                     !.clean = call.alone[t]
                               /\ polar_loop(Float_t, InstanceOf(t).e, <<>>, MaxTries).accepted,
                     !.at[t] = IF polar_loop(Float_t, InstanceOf(t).e, <<>>, MaxTries).accepted
                               THEN "idle" ELSE "looping"]
       /\ UNCHANGED build

NextSpare == GaussianEnter \/ GaussianDraw

SpecSpare == InitSpare /\ [][NextSpare]_vars

\* the spare the polar method computes from the draws of engine 'from'
SpareFrom(r) == [x |-> r.v, s |-> r.s, raws |-> r.raws]

\* C28: the spare of next_gaussian is shared by all instances of the type.
\* When a call on one instance has stored a spare (no other call having
\* started meanwhile), the next call on either instance, whatever engine it
\* has, returns mean + stddev * spare with the spare made from the storing
\* instance's draws, takes no draw and leaves its own engine unchanged.
C28_SpareSharedAcrossInstances ==
    (call.op \in {"cached", "begin"} /\ call.after.op = "stored" /\ call.after.clean)
    => /\ call.op = "cached"
       /\ InstanceOf(call.who).ret
            = GaussianValue(TRUE, call.mean, call.stddev,
                            call.had.spare.x, call.had.spare.s)
       /\ InstanceOf(call.who).e = call.pre
       /\ InstanceOf(call.who).drawn = <<>>
       /\ call.had.spare.by = call.after.who
       /\ call.had.spare.raws # <<>>
       /\ SpareFrom(polar_loop(Float_t, call.had.spare.from, <<>>, MaxTries))
            = [x |-> call.had.spare.x, s |-> call.had.spare.s,
               raws |-> call.had.spare.raws]
       /\ call.had.spare.by # call.who
            => /\ InstanceOf(call.had.spare.by).drawn = call.had.spare.raws
               /\ InstanceOf(call.had.spare.by).ret.s = call.had.spare.s

\* instance B returns the spare stored by a call on instance A, whose engine
\* differs from B's
C28_Witness ==
    /\ call.op = "cached"
    /\ call.who = "B"
    /\ call.after = [op |-> "stored", who |-> "A", clean |-> TRUE]
    /\ other.ret.cached
    /\ other.ret.x = call.had.spare.x
    /\ other.ret.x # 0
    /\ drawn = call.had.spare.raws
    /\ other.e = call.pre
    /\ other.e # e

----------------------------------------------------------------------------
(* ulid_t: a 128-bit identifier of 16 bytes, a big-endian timestamp of 6   *)
(* bytes and 10 random bytes, written as 26 Crockford Base32 digits.  The  *)
(* sizes scale with the word: a byte is half of the model's uint32_t, a    *)
(* uint64_t holds BytesPerWord bytes, and the digits stay 5 bits wide.     *)

\* the width of a Base32 digit
DIGIT_BITS == 5

\* std::uint8_t, and its 0xFF
ByteBits == HalfBits
ByteMax == Pow2(ByteBits) - 1
Byte_t == [name |-> "uint8_t", bits |-> ByteBits, signed |-> FALSE, promoted |-> TRUE]

\* sizeof(std::uint64_t), 8 in the source
BytesPerWord == WordBits \div ByteBits

\* std::array<byte, 16> data: two words
UlidBytes == 2 * BytesPerWord

\* timestamp_bytes() is 6 of the 16 bytes, random_bytes() the other 10
TsBytes == (6 * UlidBytes) \div 16
RandBytes == UlidBytes - TsBytes
TsBits == TsBytes * ByteBits

\* 26 digits of 5 bits cover the 128 bits, with 2 bits to spare; the first
\* digit starts at bit 125
UlidDigits == (UlidBytes * ByteBits + DIGIT_BITS - 1) \div DIGIT_BITS
TopShift == (UlidDigits - 1) * DIGIT_BITS
SpareBits == UlidDigits * DIGIT_BITS - UlidBytes * ByteBits

\* ulid_t::ENCODING
ENCODING ==
    << "0", "1", "2", "3", "4", "5", "6", "7", "8", "9",
       "A", "B", "C", "D", "E", "F", "G", "H", "J", "K",
       "M", "N", "P", "Q", "R", "S", "T", "V", "W", "X",
       "Y", "Z" >>

\* the lower-case labels of decode_crockford, in the order of their values
LOWERCASE ==
    << "0", "1", "2", "3", "4", "5", "6", "7", "8", "9",
       "a", "b", "c", "d", "e", "f", "g", "h", "j", "k",
       "m", "n", "p", "q", "r", "s", "t", "v", "w", "x",
       "y", "z" >>

Range(seq) == {seq[i] : i \in 1 .. Len(seq)}

IndexOf(seq, c) == CHOOSE i \in 1 .. Len(seq) : seq[i] = c

\* ulid_t::decode_crockford
decode_crockford(c) ==
    IF c \in {"O", "o"} THEN [has |-> TRUE, val |-> 0]
    ELSE IF c \in {"I", "i", "L", "l"} THEN [has |-> TRUE, val |-> 1]
    ELSE IF c \in Range(ENCODING) THEN [has |-> TRUE, val |-> IndexOf(ENCODING, c) - 1]
    ELSE IF c \in Range(LOWERCASE) THEN [has |-> TRUE, val |-> IndexOf(LOWERCASE, c) - 1]
    ELSE [has |-> FALSE, val |-> 0]

\* for(i = from; i < to; ++i) v = (v << 8) | bytes[i], on zero-based i
RECURSIVE read_be(_, _, _, _)
read_be(bytes, i, to, v) ==
    IF i < to
    THEN read_be(bytes, i + 1, to, BitOr(Shl(v, ByteBits, WordBits), bytes[i + 1]))
    ELSE v

\* ulid_t::write_be<N>
write_be(value, N) ==
    [i \in 1 .. N |-> BitAnd(Shr(value, (N - i) * ByteBits), ByteMax)]

\* extract_digit reading a digit that spans the two words from lo alone
extract_digit_lo_only(hi, lo, index) ==
    LET shift == TopShift - DIGIT_BITS * index
    IN  IF shift < WordBits
        THEN BitAnd(Shr(lo, shift), Pow2(DIGIT_BITS) - 1)
        ELSE BitAnd(Shr(hi, shift - WordBits), Pow2(DIGIT_BITS) - 1)

\* ulid_t::extract_digit
extract_digit(hi, lo, index) ==
    LET shift == TopShift - DIGIT_BITS * index
    IN  IF shift = 0
        THEN BitAnd(lo, Pow2(DIGIT_BITS) - 1)
        ELSE IF shift < WordBits
        THEN BitAnd(BitOr(Shl(hi, WordBits - shift, WordBits), Shr(lo, shift)),
                    Pow2(DIGIT_BITS) - 1)
        ELSE BitAnd(Shr(hi, shift - WordBits), Pow2(DIGIT_BITS) - 1)

\* the digits of the 128-bit value (hi << 64) | lo
encode_digits(hi, lo) ==
    [i \in 1 .. UlidDigits |-> ENCODING[extract_digit(hi, lo, i - 1) + 1]]

\* ulid_t::encode_base32
encode_base32(bytes) ==
    encode_digits(read_be(bytes, 0, BytesPerWord, 0),
                  read_be(bytes, BytesPerWord, UlidBytes, 0))

\* ulid_t::to_string
to_string(data) == encode_base32(data)

\* one round of the inner loop of from_string on acc[i]
shift_word(word, carry) ==
    [word |-> BitOr(Shl(word, DIGIT_BITS, WordBits), carry),
     carry |-> Shr(word, WordBits - DIGIT_BITS)]

\* the inner loop of from_string: the 192-bit accumulator shifted left by a
\* digit, the digit v entering at the bottom
shift_in(acc, v) ==
    << shift_word(acc[1], v).word,
       shift_word(acc[2], shift_word(acc[1], v).carry).word,
       shift_word(acc[3], shift_word(acc[2], shift_word(acc[1], v).carry).carry).word >>

NoUlid == [has |-> FALSE, data |-> <<>>]

\* for(char ch : s) of from_string, from the i-th character on
RECURSIVE from_string_loop(_, _, _)
from_string_loop(s, i, acc) ==
    IF i > Len(s) THEN [has |-> TRUE, acc |-> acc]
    ELSE IF ~decode_crockford(s[i]).has THEN [has |-> FALSE, acc |-> acc]
    ELSE from_string_loop(s, i + 1, shift_in(acc, decode_crockford(s[i]).val))

\* from_string after its loop: the canonicality check and the bytes
from_string_end(r) ==
    IF ~r.has THEN NoUlid
    ELSE IF BitAnd(r.acc[3], Pow2(SpareBits) - 1) # 0 THEN NoUlid
    ELSE [has |-> TRUE,
          data |-> write_be(r.acc[2], BytesPerWord) \o write_be(r.acc[1], BytesPerWord)]

\* ulid_t::from_string
from_string(s) ==
    IF Len(s) # UlidDigits THEN NoUlid
    ELSE from_string_end(from_string_loop(s, 1, <<0, 0, 0>>))

\* ulid_t::operator<=> on the 16 bytes, and the order of two strings
RECURSIVE LexLess(_, _)
LexLess(a, b) ==
    IF a = <<>> THEN b # <<>>
    ELSE IF b = <<>> THEN FALSE
    ELSE IF Head(a) # Head(b) THEN Head(a) < Head(b)
    ELSE LexLess(Tail(a), Tail(b))

\* the order of the characters to_string writes is the order of their codes:
\* the digits, then the letters in alphabetical order
CharRank(c) == IndexOf(ENCODING, c)

BytesLess(a, b) == LexLess(a, b)

StringLess(a, b) ==
    LexLess([i \in 1 .. Len(a) |-> CharRank(a[i])], [i \in 1 .. Len(b) |-> CharRank(b[i])])

----------------------------------------------------------------------------
(* SpecText: to_string and from_string as pure functions, on ulids made of *)
(* sample bytes and on strings altered from what to_string wrote.          *)

ByteSamples == {0, 1, 5, Pow2(ByteBits - 1), ByteMax - 1, ByteMax}

SampleUlids == [1 .. UlidBytes -> ByteSamples]

\* characters put into a string: digits and letters of the alphabet, the
\* aliases and lower-case letters decode_crockford also takes, and characters
\* it does not take
AlteringChars == {"0", "3", "4", "7", "8", "Z", "o", "L", "z", "U", "u", "-", " "}

NoText == [text |-> <<>>, has |-> FALSE, data |-> <<>>]

InitText ==
    /\ build = "int128"
    /\ statics = NoStatics
    /\ e = NoEngine
    /\ \E u \in SampleUlids : call = [op |-> "input", u |-> u, s |-> <<>>]
    /\ ret = NoText
    /\ drawn = <<>>
    /\ other = NoOther

\* what from_string(s) returns, next to the string
Parsed(s, r) == [text |-> s, has |-> r.has, data |-> r.data]

\* from_string(u.to_string())
UlidRoundTrip ==
    /\ call.op = "input"
    /\ call' = [call EXCEPT !.op = "round_trip", !.s = to_string(call.u)]
    /\ ret' = Parsed(to_string(call.u), from_string(to_string(call.u)))
    /\ UNCHANGED <<build, statics, e, drawn, other>>

\* from_string of u.to_string() with one character replaced
UlidParseReplaced ==
    /\ call.op = "input"
    /\ \E i \in 1 .. UlidDigits, c \in AlteringChars :
          /\ call' = [call EXCEPT !.op = "from_string",
                                  !.s = [to_string(call.u) EXCEPT ![i] = c]]
          /\ ret' = Parsed([to_string(call.u) EXCEPT ![i] = c],
                           from_string([to_string(call.u) EXCEPT ![i] = c]))
    /\ UNCHANGED <<build, statics, e, drawn, other>>

\* from_string of a string of another length: u.to_string() cut short or
\* with a character added
UlidParseResized ==
    /\ call.op = "input"
    /\ \E s \in {SubSeq(to_string(call.u), 1, n) : n \in 0 .. UlidDigits - 1}
                \cup {Append(to_string(call.u), c) : c \in {"0", "Z"}}
                \cup {<<c>> \o to_string(call.u) : c \in {"0"}} :
          /\ call' = [call EXCEPT !.op = "from_string", !.s = s]
          /\ ret' = Parsed(s, from_string(s))
    /\ UNCHANGED <<build, statics, e, drawn, other>>

NextText == UlidRoundTrip \/ UlidParseReplaced \/ UlidParseResized

SpecText == InitText /\ [][NextText]_vars

\* the characters from_string takes for a digit: the 32 of the alphabet,
\* their lower-case forms, and O, I and L read as 0, 1 and 1
CrockfordChars ==
    Range(ENCODING) \cup Range(LOWERCASE) \cup {"O", "o", "I", "i", "L", "l"}

\* the value of the whole string has a bit set above the 128: its first digit
\* does not fit in the bits the first digit has left
TopBitsSet(s) ==
    /\ s # <<>>
    /\ s[1] \in CrockfordChars
    /\ decode_crockford(s[1]).val >= Pow2(DIGIT_BITS - SpareBits)

----------------------------------------------------------------------------
(* ulid_t::generate_monotonic *)

\* increment_big_endian from the i-th byte down: a byte below 0xFF is bumped
\* and ends the loop, a byte of 0xFF becomes 0 and carries on
RECURSIVE increment_from(_, _)
increment_from(rand, i) ==
    IF i = 0 THEN rand
    ELSE IF rand[i] # ByteMax THEN [rand EXCEPT ![i] = rand[i] + 1]
    ELSE increment_from([rand EXCEPT ![i] = 0], i - 1)

\* ulid_t::increment_big_endian
increment_big_endian(rand) == increment_from(rand, Len(rand))

\* the random field after n successive increment_big_endian calls: the bytes
\* read as one big-endian number, n added, the carry out of the top dropped
RECURSIVE big_endian(_)
big_endian(rand) ==
    IF rand = <<>> THEN 0
    ELSE big_endian(SubSeq(rand, 1, Len(rand) - 1)) * Pow2(ByteBits) + rand[Len(rand)]

increment_times(rand, n) ==
    write_be((big_endian(rand) + n) % Pow2(Len(rand) * ByteBits), Len(rand))

\* one rng.bits<8, byte>() added to the bytes generated so far
fill_add(r, bytes, raws) ==
    [e |-> r.e, bytes |-> Append(bytes, r.ret), drawn |-> raws \o r.drawn]

\* std::ranges::generate(last_rand, [&]{ return rng.bits<8, byte>(); })
RECURSIVE fill_random(_, _)
fill_random(acc, n) ==
    IF n = 0 THEN acc
    ELSE fill_random(fill_add(RandomBits(Byte_t, acc.e, ByteBits), acc.bytes, acc.drawn),
                     n - 1)

\* the thread's statics before its first call: last_ts = 0, last_rand{},
\* have_last = false, and rng not yet initialised
NoLast ==
    [have_last |-> FALSE, last_ts |-> 0, last_rand |-> [i \in 1 .. RandBytes |-> 0]]

\* the branch of generate_monotonic that draws fresh randomness
monotonic_fresh(ts, r) ==
    [statics |-> [have_last |-> TRUE, last_ts |-> ts, last_rand |-> r.bytes],
     e |-> r.e, drawn |-> r.drawn, fresh |-> TRUE,
     ulid |-> write_be(ts, TsBytes) \o r.bytes]

\* the branch that pins the timestamp and bumps the random field
monotonic_bump(st, g, ts, rand) ==
    [statics |-> [st EXCEPT !.last_rand = rand],
     e |-> g, drawn |-> <<>>, fresh |-> FALSE,
     ulid |-> write_be(IF ts < st.last_ts THEN st.last_ts ELSE ts, TsBytes) \o rand]

\* ulid_t::generate_monotonic with the clock reading ts and the thread's rng g
generate_monotonic(st, g, ts) ==
    IF ~st.have_last \/ ts > st.last_ts
    THEN monotonic_fresh(ts, fill_random([e |-> g, bytes |-> <<>>, drawn |-> <<>>],
                                         RandBytes))
    ELSE monotonic_bump(st, g, ts, increment_big_endian(st.last_rand))

\* n successive generate_monotonic() calls that read the clock as ts, which
\* is not after last_ts: each takes the branch that bumps the random field
generate_times(st, g, ts, n) ==
    monotonic_bump(st, g, ts, increment_times(st.last_rand, n))

----------------------------------------------------------------------------
(* SpecUlid: one thread calling generate_monotonic, the clock reading of   *)
(* each call being any of a few values.                                    *)

\* the number of steps of the thread, a step being one call or a run of calls
MaxGenerated == 4

\* the values now_ms() returns: the first milliseconds, and the last one
\* that fits the 48 bits of the timestamp with the one after it
Clock == {0, 1, Pow2(TsBits) - 1, Pow2(TsBits)}

\* the lengths of a run of calls within one millisecond: a few, as many as
\* bring the random field to all 0xFF, and one more
RunLengths(rand) ==
    {n \in {2, Pow2(ByteBits),
            Pow2(Len(rand) * ByteBits) - 1 - big_endian(rand),
            Pow2(Len(rand) * ByteBits) - big_endian(rand)} : n >= 2}

InitUlid ==
    /\ build = "int128"
    /\ statics = NoLast
    /\ e = NoEngine
    /\ call = [op |-> "construct", ts |-> 0, prev |-> <<>>, fresh |-> FALSE,
               calls |-> 0, steps |-> 0]
    /\ ret = [ulid |-> <<>>, text |-> <<>>]
    /\ drawn = <<>>
    /\ other = NoOther

\* what the last of n calls leaves behind, prev being the ulid returned by
\* the call before it
Generated(ts, n, prev, r) ==
    /\ statics' = r.statics
    /\ e' = r.e
    /\ drawn' = r.drawn
    /\ ret' = [ulid |-> r.ulid, text |-> to_string(r.ulid)]
    /\ call' = [op |-> "generate_monotonic", ts |-> ts, prev |-> prev,
                fresh |-> r.fresh, calls |-> n, steps |-> call.steps + 1]

\* the last call of a run, after the calls that led to 'before'
GeneratedAfter(ts, n, before) ==
    Generated(ts, n, before.ulid, generate_monotonic(before.statics, before.e, ts))

\* the thread's first call, which initialises rng from the clock reading and
\* std::random_device
GenerateFirst ==
    /\ call.steps = 0
    /\ \E ts \in Clock, rd \in U32 :
          Generated(ts, 1, ret.ulid,
                    generate_monotonic(statics,
                        EngineSeeded("RomuDuoJr", BitXor(ts, rd)), ts))
    /\ UNCHANGED <<build, other>>

\* a later call, the clock reading anything
GenerateMonotonic ==
    /\ call.steps > 0
    /\ call.steps < MaxGenerated
    /\ \E ts \in Clock :
          Generated(ts, 1, ret.ulid, generate_monotonic(statics, e, ts))
    /\ UNCHANGED <<build, other>>

\* a run of n later calls within the millisecond of the call before
GenerateRun ==
    /\ call.steps > 0
    /\ call.steps < MaxGenerated
    /\ statics.have_last
    /\ call.ts <= statics.last_ts
    /\ \E n \in RunLengths(statics.last_rand) :
          GeneratedAfter(call.ts, n, generate_times(statics, e, call.ts, n - 1))
    /\ UNCHANGED <<build, other>>

NextUlid == GenerateFirst \/ GenerateMonotonic \/ GenerateRun

SpecUlid == InitUlid /\ [][NextUlid]_vars

\* C21: within one thread every generate_monotonic() call returns a ulid
\* greater than the one the call before returned, in the order of the bytes
\* and in the order of the strings, whatever the clock reads.
C21_StrictlyIncreasing ==
    (call.op = "generate_monotonic" /\ call.prev # <<>>)
    => /\ BytesLess(call.prev, ret.ulid)
       /\ StringLess(to_string(call.prev), ret.text)

====
